---- MODULE Spec2Model ----
(***************************************************************************)
(* Lurker: the session coordinator (Lurker::Impl in Lurker.cpp), the       *)
(* controlling thread (main in main.cpp), the worker thread and the        *)
(* callbacks the Twitch messaging engine delivers on its own thread(s).    *)
(* Every action is one statement (or one critical-section step) of the     *)
(* code; threads interleave between the actions.                           *)
(***************************************************************************)
EXTENDS Integers, Sequences, FiniteSets, Bags, TLC

\* ------------------------------------------------------------------ bounds
\* longest channel list given on the command line
MaxChannels == 2
\* number of callbacks the engine delivers in one run
MaxCallbacks == 3

\* number of content callbacks and connection-factory calls in one run
MaxEvents == 2

\* ---------------------------------------------------------------- constants
\* SystemAbstractions::DiagnosticsSender::Levels::ERROR
ERROR == 10

\* the command lines tried: argv[1..argc-1] is no channel, one channel, two
\* channels out of alphabetical order, three with a repeated one, ...
ArgOrder == <<"b", "a", "b", "c", "a", "d">>
ArgLists == {SubSeq(ArgOrder, 1, n) : n \in 0..MaxChannels}

\* the engine-owned threads that can deliver callbacks
EngineThreads == {"e1", "e2"}

\* the threads that can call Lurker::AwaitLogOut
Waiters == {"main", "aux"}

\* the name of the n-th worker thread object created by StartWorker
WorkerName(n) == <<"w1", "w2", "w3", "w4", "w5", "w6", "w7", "w8">>[n]

\* the worker threads that can be created: one per login callback at most
WorkerNames == {WorkerName(n) : n \in 1..MaxCallbacks}

\* the callbacks of Twitch::Messaging::User modelled so far
Callbacks == {"LogIn", "LogOut", "Doom"}

VARIABLES
    argv,           \* main: the channel arguments of the command line
    mpc,            \* main: position of the controlling thread
    shutDown,       \* main.cpp: bool shutDown
    handler,        \* main: TRUE while InterruptHandler is the SIGINT handler
    channelsToJoin, \* Impl::channelsToJoin
    mutex,          \* Impl::mutex: "free" or the thread that holds it
    mainThreadEvent,     \* Impl::mainThreadEvent: threads blocked on it
    workerWakeCondition, \* Impl::workerWakeCondition: threads blocked on it
    loggedOut,      \* Impl::loggedOut
    stopWorker,     \* Impl::stopWorker
    workerThread,   \* Impl::workerThread: "none" (not joinable) or a worker
    wpc,            \* position of every worker thread created so far
    wake,           \* why a thread left its condition wait
    pc,             \* position of every engine thread
    idx,            \* LogIn: index of the range-for over channelsToJoin
    joined,         \* LogIn: the Join commands issued by the running callback
    joinTarget,     \* StopWorker: the thread a join() call waits for
    apc,            \* position of every thread inside AwaitLogOut
    awaitResult,    \* AwaitLogOut: the value returned
    timedOut,       \* AwaitLogOut: the bounded wait elapsed
    seenAtCall,     \* AwaitLogOut: loggedOut when the call began
    diags,          \* bag of the diagnostics handed to the sink
    tmiCommands,    \* commands issued to Twitch::Messaging, in order
    done,           \* callbacks that have returned, by kind
    notified,       \* one record for every mainThreadEvent.notify_one()
    lifecycle,      \* the last of LogIn and LogOut to have returned
    stopped,        \* workers whose join() in StopWorker has returned
    terminated,     \* std::terminate was called
    channels,       \* main: environment.channels
    usage,          \* main: PrintUsageInformation has written to stderr
    events          \* bag of the content callbacks delivered, each with
                    \* what it was given and what it emitted

vars == <<argv, mpc, shutDown, handler, channelsToJoin, mutex,
          mainThreadEvent, workerWakeCondition, loggedOut, stopWorker,
          workerThread, wpc, wake, pc, idx, joined, joinTarget, apc,
          awaitResult, timedOut, seenAtCall, diags, tmiCommands, done,
          notified, lifecycle, stopped, terminated, channels, usage, events>>

\* the variables of Lurker::Impl that the session's lifecycle lives in
session == <<channelsToJoin, mutex, mainThreadEvent, workerWakeCondition,
             loggedOut, stopWorker, workerThread, wpc, wake>>
\* the variables of the controlling thread
mainv == <<argv, channels, usage, mpc, shutDown, handler>>
\* the locals of the engine threads' callbacks
locals == <<idx, joined, joinTarget>>
\* the locals of AwaitLogOut
awaitv == <<apc, awaitResult, timedOut, seenAtCall>>
\* what the collaborators and the observers record
observed == <<diags, tmiCommands, done, notified, lifecycle, stopped,
              events>>

\* DiagnosticsSender::SendDiagnosticInformationString(level, text)
Diag(level, text) == <<level, <<text>>>>
Send(d) == diags (+) SetToBag({d})

\* the process is running: main has not returned, nothing called terminate
Running == ~terminated /\ mpc \notin {"done", "exit_failure"}

\* the engine delivers callbacks once LogInAnonymously asked it to connect
EngineActive == \E i \in 1..Len(tmiCommands) : tmiCommands[i] = <<"LogInAnonymously">>

\* callbacks delivered so far: returned ones and those in progress
Calls == done["LogIn"] + done["LogOut"] + done["Doom"]
         + Cardinality({t \in EngineThreads : pc[t] \notin {"off", "idle"}})

\* std::thread::joinable()
Joinable == workerThread # "none"

TypeOK ==
    /\ argv \in ArgLists
    /\ shutDown \in BOOLEAN /\ handler \in BOOLEAN
    /\ loggedOut \in BOOLEAN /\ stopWorker \in BOOLEAN
    /\ terminated \in BOOLEAN
    /\ mutex \in {"free"} \cup EngineThreads \cup Waiters \cup DOMAIN wpc
    /\ workerThread \in {"none"} \cup DOMAIN wpc
    /\ mainThreadEvent \subseteq Waiters
    /\ workerWakeCondition \subseteq DOMAIN wpc

InitWith(engines, waiters) ==
    /\ argv \in ArgLists
    /\ mpc = "args"
    /\ shutDown = FALSE
    /\ handler = TRUE
    /\ channelsToJoin = <<>>
    /\ mutex = "free"
    /\ mainThreadEvent = {}
    /\ workerWakeCondition = {}
    /\ loggedOut = FALSE
    /\ stopWorker = FALSE
    /\ workerThread = "none"
    /\ wpc = <<>>
    /\ wake = [t \in Waiters |-> "none"]
    /\ pc = [t \in EngineThreads |-> IF t \in engines THEN "idle" ELSE "off"]
    /\ idx = [t \in EngineThreads |-> 0]
    /\ joined = [t \in EngineThreads |-> <<>>]
    /\ joinTarget = [t \in EngineThreads |-> "none"]
    /\ apc = [t \in Waiters |-> IF t \in waiters THEN "none" ELSE "off"]
    /\ awaitResult = [t \in Waiters |-> FALSE]
    /\ timedOut = [t \in Waiters |-> FALSE]
    /\ seenAtCall = [t \in Waiters |-> FALSE]
    /\ diags = EmptyBag
    /\ tmiCommands = <<>>
    /\ done = [c \in Callbacks |-> 0]
    /\ notified = <<>>
    /\ lifecycle = "none"
    /\ stopped = {}
    /\ terminated = FALSE
    /\ channels = <<>>
    /\ usage = FALSE
    /\ events = EmptyBag

\* one engine thread (callbacks delivered one after the other), main waits
Init == InitWith({"e1"}, {"main"})

\* a thread calls Lurker::AwaitLogOut
AwaitLogOut_Call(t) ==
    /\ apc' = [apc EXCEPT ![t] = "a_lock"]
    /\ seenAtCall' = [seenAtCall EXCEPT ![t] = loggedOut]

\* the caller takes the value AwaitLogOut returned
AwaitLogOut_Return(t) ==
    /\ apc' = [apc EXCEPT ![t] = "none"]
    /\ awaitResult' = [awaitResult EXCEPT ![t] = FALSE]
    /\ timedOut' = [timedOut EXCEPT ![t] = FALSE]
    /\ seenAtCall' = [seenAtCall EXCEPT ![t] = FALSE]

\* =================================================================== main
\* ProcessCommandLineArguments with the loop starting one argument late
RECURSIVE PushBackSkippingFirst(_, _, _)
PushBackSkippingFirst(list, args, i) ==
    IF i > Len(args) THEN list
    ELSE PushBackSkippingFirst(IF i = 1 THEN list ELSE Append(list, args[i]),
                               args, i + 1)

\* main.cpp ProcessCommandLineArguments:
\*     for (int i = 1; i < argc; ++i) environment.channels.push_back(argv[i]);
\* the list after the iterations from i on (argv here is argv[1..argc-1])
RECURSIVE PushBackAll(_, _, _)
PushBackAll(list, args, i) ==
    IF i > Len(args) THEN list
    ELSE PushBackAll(Append(list, args[i]), args, i + 1)

\* main.cpp ProcessCommandLineArguments and main's use of it: without a
\* channel it reports an error and main prints the usage and returns
\* EXIT_FAILURE
ProcessCommandLineArguments ==
    /\ Running /\ mpc = "args"
    /\ channels' = PushBackAll(channels, argv, 1)
    /\ IF channels' = <<>>
       THEN /\ diags' = Send(Diag(ERROR, "no channels given"))
            /\ usage' = TRUE
            /\ mpc' = "exit_failure"
       ELSE /\ diags' = diags
            /\ usage' = usage
            /\ mpc' = "configure"
    /\ UNCHANGED <<argv, shutDown, handler, session, pc, locals, awaitv,
                   tmiCommands, done, lifecycle, notified, stopped, events,
                   terminated>>

\* Lurker::Configure
Configure ==
    /\ Running /\ mpc = "configure"
    /\ diags' = Send(Diag(3, "Configured."))
    /\ mpc' = "login"
    /\ UNCHANGED <<argv, channels, usage, shutDown, handler, session, pc,
                   locals, awaitv, tmiCommands, done, lifecycle, notified,
                   stopped, events, terminated>>

\* InitiateLogIn that joins the first channel itself
InitiateLogInJoins ==
    /\ Running /\ mpc = "login"
    /\ channelsToJoin' = channels
    /\ tmiCommands' = tmiCommands \o <<<<"LogInAnonymously">>,
                                       <<"Join", channels[1]>>>>
    /\ mpc' = "loop"
    /\ UNCHANGED <<argv, channels, usage, shutDown, handler, mutex,
                   mainThreadEvent, workerWakeCondition, loggedOut, stopWorker,
                   workerThread, wpc, wake, pc, locals, awaitv, diags, done,
                   lifecycle, notified, stopped, events, terminated>>

\* Lurker::InitiateLogIn
InitiateLogIn ==
    /\ Running /\ mpc = "login"
    /\ channelsToJoin' = channels
    /\ tmiCommands' = Append(tmiCommands, <<"LogInAnonymously">>)
    /\ mpc' = "loop"
    /\ UNCHANGED <<argv, channels, usage, shutDown, handler, mutex,
                   mainThreadEvent, workerWakeCondition, loggedOut,
                   stopWorker, workerThread, wpc, wake, pc, locals, awaitv,
                   diags, done, lifecycle, notified, stopped, events,
                   terminated>>

\* MainLoop for a loop that does not look at the interrupt flag
MainLoopIgnoresFlag ==
    /\ Running /\ mpc = "loop"
    /\ mpc' = "await"
    /\ AwaitLogOut_Call("main")
    /\ UNCHANGED <<argv, channels, usage, shutDown, handler, session, pc,
                   locals, awaitResult, timedOut, observed, terminated>>

\* main: while (!shutDown) { if (lurker->AwaitLogOut()) ...
MainLoop ==
    /\ Running /\ mpc = "loop"
    /\ IF shutDown
       THEN /\ mpc' = "restore"
            /\ UNCHANGED <<apc, seenAtCall>>
       ELSE /\ mpc' = "await"
            /\ AwaitLogOut_Call("main")
    /\ UNCHANGED <<argv, channels, usage, shutDown, handler, session, pc,
                   locals, awaitResult, timedOut, observed, terminated>>

\* MainLoopReturn for a main that skips InitiateLogOut when the session
\* already reported the logout
MainLoopReturnSkipsLogOut ==
    /\ Running /\ mpc = "await" /\ apc["main"] = "a_ret"
    /\ IF awaitResult["main"]
       THEN /\ mpc' = "final"
            /\ apc' = [apc EXCEPT !["main"] = "a_lock"]
            /\ seenAtCall' = [seenAtCall EXCEPT !["main"] = loggedOut]
            /\ awaitResult' = [awaitResult EXCEPT !["main"] = FALSE]
            /\ timedOut' = [timedOut EXCEPT !["main"] = FALSE]
       ELSE /\ mpc' = "loop"
            /\ AwaitLogOut_Return("main")
    /\ UNCHANGED <<argv, channels, usage, shutDown, handler, session, pc,
                   locals, observed, terminated>>

\* MainLoopReturn for a loop that ends after its first AwaitLogOut,
\* whatever it returned
MainLoopReturnBreaksAlways ==
    /\ Running /\ mpc = "await" /\ apc["main"] = "a_ret"
    /\ AwaitLogOut_Return("main")
    /\ mpc' = "restore"
    /\ UNCHANGED <<argv, channels, usage, shutDown, handler, session, pc,
                   locals, observed, terminated>>

\* main: ... if (lurker->AwaitLogOut()) { break; }
MainLoopReturn ==
    /\ Running /\ mpc = "await" /\ apc["main"] = "a_ret"
    /\ AwaitLogOut_Return("main")
    /\ mpc' = IF awaitResult["main"] THEN "restore" ELSE "loop"
    /\ UNCHANGED <<argv, channels, usage, shutDown, handler, session, pc,
                   locals, observed, terminated>>

\* main: (void)signal(SIGINT, previousInterruptHandler)
RestoreHandler ==
    /\ Running /\ mpc = "restore"
    /\ handler' = FALSE
    /\ mpc' = "logout"
    /\ UNCHANGED <<argv, channels, usage, shutDown, session, pc, locals,
                   awaitv, observed, terminated>>

\* InitiateLogOut that marks the session logged out itself
InitiateLogOutSetsFlag ==
    /\ Running /\ mpc = "logout"
    /\ diags' = Send(Diag(3, "Exiting..."))
    /\ tmiCommands' = Append(tmiCommands, <<"LogOut", "Bye! BibleThump">>)
    /\ loggedOut' = TRUE
    /\ mpc' = "final"
    /\ AwaitLogOut_Call("main")
    /\ UNCHANGED <<argv, channels, usage, shutDown, handler, channelsToJoin,
                   mutex, mainThreadEvent, workerWakeCondition, stopWorker,
                   workerThread, wpc, wake, pc, locals, awaitResult, timedOut,
                   done, lifecycle, notified, stopped, events, terminated>>

\* Lurker::InitiateLogOut, then main calls AwaitLogOut once more
InitiateLogOut ==
    /\ Running /\ mpc = "logout"
    /\ diags' = Send(Diag(3, "Exiting..."))
    /\ tmiCommands' = Append(tmiCommands, <<"LogOut", "Bye! BibleThump">>)
    /\ mpc' = "final"
    /\ AwaitLogOut_Call("main")
    /\ UNCHANGED <<argv, channels, usage, shutDown, handler, session, pc,
                   locals, awaitResult, timedOut, done, lifecycle, notified,
                   stopped, events, terminated>>

\* Destroy for a main that waits again until the logout is confirmed
DestroyWaitsForLogOut ==
    /\ Running /\ mpc = "final" /\ apc["main"] = "a_ret"
    /\ IF awaitResult["main"]
       THEN /\ AwaitLogOut_Return("main")
            /\ IF Joinable
               THEN terminated' = TRUE /\ mpc' = mpc
               ELSE terminated' = terminated /\ mpc' = "done"
       ELSE /\ apc' = [apc EXCEPT !["main"] = "a_lock"]
            /\ seenAtCall' = [seenAtCall EXCEPT !["main"] = loggedOut]
            /\ awaitResult' = [awaitResult EXCEPT !["main"] = FALSE]
            /\ timedOut' = [timedOut EXCEPT !["main"] = FALSE]
            /\ UNCHANGED <<mpc, terminated>>
    /\ UNCHANGED <<argv, channels, usage, shutDown, handler, session, pc,
                   locals, observed>>

\* main: return EXIT_SUCCESS; the last reference to the Lurker goes away and
\* ~Impl destroys workerThread: std::terminate if it is still joinable
Destroy ==
    /\ Running /\ mpc = "final" /\ apc["main"] = "a_ret"
    /\ AwaitLogOut_Return("main")
    /\ IF Joinable
       THEN terminated' = TRUE /\ mpc' = mpc
       ELSE terminated' = terminated /\ mpc' = "done"
    /\ UNCHANGED <<argv, channels, usage, shutDown, handler, session, pc,
                   locals, observed>>

\* main.cpp InterruptHandler, while it is installed
InterruptHandler ==
    /\ Running /\ handler /\ ~shutDown
    /\ shutDown' = TRUE
    /\ UNCHANGED <<argv, channels, usage, mpc, handler, session, pc, locals,
                   awaitv, observed, terminated>>

\* =========================================================== AwaitLogOut
\* Lurker::AwaitLogOut is
\*     std::unique_lock lock(mutex);
\*     return mainThreadEvent.wait_for(lock, 250ms, [this]{ return loggedOut; });
\* and wait_for(lock, d, pred) is
\*     while (!pred()) if (wait_until(lock, t) == timeout) return pred();
\*     return true;

\* std::unique_lock< decltype(impl_->mutex) > lock(impl_->mutex)
AwaitLogOut_Lock(t) ==
    /\ Running /\ apc[t] = "a_lock" /\ mutex = "free"
    /\ mutex' = t
    /\ apc' = [apc EXCEPT ![t] = "a_pred"]
    /\ UNCHANGED <<mainv, channelsToJoin, mainThreadEvent, workerWakeCondition,
                   loggedOut, stopWorker, workerThread, wpc, wake, pc, locals,
                   awaitResult, timedOut, seenAtCall, observed, terminated>>

\* wait_for: while (!pred()) wait_until(...); return true
AwaitLogOut_Pred(t) ==
    /\ Running /\ apc[t] = "a_pred" /\ mutex = t
    /\ IF loggedOut
       THEN /\ awaitResult' = [awaitResult EXCEPT ![t] = TRUE]
            /\ apc' = [apc EXCEPT ![t] = "a_unlock"]
            /\ UNCHANGED <<mutex, mainThreadEvent, wake>>
       ELSE /\ mutex' = "free"
            /\ mainThreadEvent' = mainThreadEvent \cup {t}
            /\ wake' = [wake EXCEPT ![t] = "none"]
            /\ apc' = [apc EXCEPT ![t] = "a_waiting"]
            /\ UNCHANGED awaitResult
    /\ UNCHANGED <<mainv, channelsToJoin, workerWakeCondition, loggedOut,
                   stopWorker, workerThread, wpc, pc, locals, timedOut,
                   seenAtCall, observed, terminated>>

\* the 250 ms of the wait elapse
AwaitLogOut_Timeout(t) ==
    /\ Running /\ apc[t] = "a_waiting" /\ t \in mainThreadEvent
    /\ mainThreadEvent' = mainThreadEvent \ {t}
    /\ wake' = [wake EXCEPT ![t] = "timeout"]
    /\ UNCHANGED <<mainv, channelsToJoin, mutex, workerWakeCondition,
                   loggedOut, stopWorker, workerThread, wpc, pc, locals,
                   awaitv, observed, terminated>>

\* a condition variable may wake a waiter spuriously
AwaitLogOut_Spurious(t) ==
    /\ Running /\ apc[t] = "a_waiting" /\ t \in mainThreadEvent
    /\ mainThreadEvent' = mainThreadEvent \ {t}
    /\ wake' = [wake EXCEPT ![t] = "spurious"]
    /\ UNCHANGED <<mainv, channelsToJoin, mutex, workerWakeCondition,
                   loggedOut, stopWorker, workerThread, wpc, pc, locals,
                   awaitv, observed, terminated>>

\* AwaitLogOut_Relock for a wait_for without predicate: a timeout is
\* reported as false without looking at loggedOut again
AwaitLogOut_RelockNoPredicate(t) ==
    /\ Running /\ apc[t] = "a_waiting" /\ t \notin mainThreadEvent
    /\ mutex = "free"
    /\ mutex' = t
    /\ \E late \in BOOLEAN :
         IF wake[t] = "timeout" \/ late
         THEN /\ timedOut' = [timedOut EXCEPT ![t] = TRUE]
              /\ awaitResult' = [awaitResult EXCEPT ![t] = FALSE]
              /\ apc' = [apc EXCEPT ![t] = "a_unlock"]
         ELSE /\ apc' = [apc EXCEPT ![t] = "a_pred"]
              /\ UNCHANGED <<timedOut, awaitResult>>
    /\ wake' = [wake EXCEPT ![t] = "none"]
    /\ UNCHANGED <<mainv, channelsToJoin, mainThreadEvent,
                   workerWakeCondition, loggedOut, stopWorker, workerThread,
                   wpc, pc, locals, seenAtCall, observed, terminated>>

\* wait_until reacquires the lock and reports timeout or no_timeout; a
\* waiter woken otherwise can still find its deadline passed (late)
AwaitLogOut_Relock(t) ==
    /\ Running /\ apc[t] = "a_waiting" /\ t \notin mainThreadEvent
    /\ mutex = "free"
    /\ mutex' = t
    /\ \E late \in BOOLEAN :
         IF wake[t] = "timeout" \/ late
         THEN /\ timedOut' = [timedOut EXCEPT ![t] = TRUE]
              /\ awaitResult' = [awaitResult EXCEPT ![t] = loggedOut]
              /\ apc' = [apc EXCEPT ![t] = "a_unlock"]
         ELSE /\ apc' = [apc EXCEPT ![t] = "a_pred"]
              /\ UNCHANGED <<timedOut, awaitResult>>
    /\ wake' = [wake EXCEPT ![t] = "none"]
    /\ UNCHANGED <<mainv, channelsToJoin, mainThreadEvent,
                   workerWakeCondition, loggedOut, stopWorker, workerThread,
                   wpc, pc, locals, seenAtCall, observed, terminated>>

\* return: the unique_lock releases the mutex
AwaitLogOut_Unlock(t) ==
    /\ Running /\ apc[t] = "a_unlock" /\ mutex = t
    /\ mutex' = "free"
    /\ apc' = [apc EXCEPT ![t] = "a_ret"]
    /\ UNCHANGED <<mainv, channelsToJoin, mainThreadEvent,
                   workerWakeCondition, loggedOut, stopWorker, workerThread,
                   wpc, wake, pc, locals, awaitResult, timedOut, seenAtCall,
                   observed, terminated>>

AwaitLogOut(t) ==
    \/ AwaitLogOut_Lock(t)
    \/ AwaitLogOut_Pred(t)
    \/ AwaitLogOut_Timeout(t)
    \/ AwaitLogOut_Spurious(t)
    \/ AwaitLogOut_Relock(t)
    \/ AwaitLogOut_Unlock(t)

\* ================================================================ worker
\* Impl::Worker is
\*     std::unique_lock lock(mutex);
\*     while (!stopWorker) {
\*         workerWakeCondition.wait_for(lock, 50ms, [this]{ return stopWorker; });
\*         const auto now = timeKeeper->GetCurrentTime();
\*     }

\* std::unique_lock< decltype(mutex) > lock(mutex)
Worker_Lock(w) ==
    /\ Running /\ w \in DOMAIN wpc /\ wpc[w] = "w_lock" /\ mutex = "free"
    /\ mutex' = w
    /\ wpc' = [wpc EXCEPT ![w] = "w_test"]
    /\ UNCHANGED <<mainv, channelsToJoin, mainThreadEvent,
                   workerWakeCondition, loggedOut, stopWorker, workerThread,
                   wake, pc, locals, awaitv, observed, terminated>>

\* while (!stopWorker): leaving the loop returns and releases the lock
Worker_Test(w) ==
    /\ Running /\ w \in DOMAIN wpc /\ wpc[w] = "w_test" /\ mutex = w
    /\ IF stopWorker
       THEN mutex' = "free" /\ wpc' = [wpc EXCEPT ![w] = "exited"]
       ELSE mutex' = mutex /\ wpc' = [wpc EXCEPT ![w] = "w_pred"]
    /\ UNCHANGED <<mainv, channelsToJoin, mainThreadEvent,
                   workerWakeCondition, loggedOut, stopWorker, workerThread,
                   wake, pc, locals, awaitv, observed, terminated>>

\* Worker_Pred for a wait_for without predicate: the worker waits before it
\* looks at stopWorker
Worker_PredWaitsFirst(w) ==
    /\ Running /\ w \in DOMAIN wpc /\ wpc[w] = "w_pred" /\ mutex = w
    /\ mutex' = "free"
    /\ workerWakeCondition' = workerWakeCondition \cup {w}
    /\ wake' = [wake EXCEPT ![w] = "none"]
    /\ wpc' = [wpc EXCEPT ![w] = "w_waiting"]
    /\ UNCHANGED <<mainv, channelsToJoin, mainThreadEvent, loggedOut,
                   stopWorker, workerThread, pc, locals, awaitv, observed,
                   terminated>>

\* wait_for: while (!pred()) wait_until(...); return true
Worker_Pred(w) ==
    /\ Running /\ w \in DOMAIN wpc /\ wpc[w] = "w_pred" /\ mutex = w
    /\ IF stopWorker
       THEN /\ wpc' = [wpc EXCEPT ![w] = "w_clock"]
            /\ UNCHANGED <<mutex, workerWakeCondition, wake>>
       ELSE /\ mutex' = "free"
            /\ workerWakeCondition' = workerWakeCondition \cup {w}
            /\ wake' = [wake EXCEPT ![w] = "none"]
            /\ wpc' = [wpc EXCEPT ![w] = "w_waiting"]
    /\ UNCHANGED <<mainv, channelsToJoin, mainThreadEvent, loggedOut,
                   stopWorker, workerThread, pc, locals, awaitv, observed,
                   terminated>>

\* WORKER_POLLING_PERIOD_MILLISECONDS elapse
Worker_Timeout(w) ==
    /\ Running /\ w \in DOMAIN wpc /\ wpc[w] = "w_waiting" /\ w \in workerWakeCondition
    /\ workerWakeCondition' = workerWakeCondition \ {w}
    /\ wake' = [wake EXCEPT ![w] = "timeout"]
    /\ UNCHANGED <<mainv, channelsToJoin, mutex, mainThreadEvent, loggedOut,
                   stopWorker, workerThread, wpc, pc, locals, awaitv,
                   observed, terminated>>

\* a condition variable may wake a waiter spuriously
Worker_Spurious(w) ==
    /\ Running /\ w \in DOMAIN wpc /\ wpc[w] = "w_waiting" /\ w \in workerWakeCondition
    /\ workerWakeCondition' = workerWakeCondition \ {w}
    /\ wake' = [wake EXCEPT ![w] = "spurious"]
    /\ UNCHANGED <<mainv, channelsToJoin, mutex, mainThreadEvent, loggedOut,
                   stopWorker, workerThread, wpc, pc, locals, awaitv,
                   observed, terminated>>

\* Worker_Relock for a loop that tests stopWorker right after the wait and
\* queries the clock only when it is not set
Worker_RelockTestsFirst(w) ==
    /\ Running /\ w \in DOMAIN wpc /\ wpc[w] = "w_waiting" /\ w \notin workerWakeCondition
    /\ mutex = "free"
    /\ mutex' = w
    /\ \E late \in BOOLEAN :
         wpc' = [wpc EXCEPT ![w] =
                   IF stopWorker THEN "w_test"
                   ELSE IF wake[w] = "timeout" \/ late THEN "w_clock"
                   ELSE "w_pred"]
    /\ wake' = [wake EXCEPT ![w] = "none"]
    /\ UNCHANGED <<mainv, channelsToJoin, mainThreadEvent,
                   workerWakeCondition, loggedOut, stopWorker, workerThread,
                   pc, locals, awaitv, observed, terminated>>

\* wait_until reacquires the lock; on timeout wait_for returns pred(),
\* otherwise it tests pred() again
Worker_Relock(w) ==
    /\ Running /\ w \in DOMAIN wpc /\ wpc[w] = "w_waiting" /\ w \notin workerWakeCondition
    /\ mutex = "free"
    /\ mutex' = w
    /\ \E late \in BOOLEAN :
         wpc' = [wpc EXCEPT ![w] =
                   IF wake[w] = "timeout" \/ late THEN "w_clock" ELSE "w_pred"]
    /\ wake' = [wake EXCEPT ![w] = "none"]
    /\ UNCHANGED <<mainv, channelsToJoin, mainThreadEvent,
                   workerWakeCondition, loggedOut, stopWorker, workerThread,
                   pc, locals, awaitv, observed, terminated>>

\* const auto now = timeKeeper->GetCurrentTime()
Worker_Clock(w) ==
    /\ Running /\ w \in DOMAIN wpc /\ wpc[w] = "w_clock" /\ mutex = w
    /\ wpc' = [wpc EXCEPT ![w] = "w_test"]
    /\ UNCHANGED <<mainv, channelsToJoin, mutex, mainThreadEvent,
                   workerWakeCondition, loggedOut, stopWorker, workerThread,
                   wake, pc, locals, awaitv, observed, terminated>>

Worker(w) ==
    \/ Worker_Lock(w)
    \/ Worker_Test(w)
    \/ Worker_Pred(w)
    \/ Worker_Timeout(w)
    \/ Worker_Spurious(w)
    \/ Worker_Relock(w)
    \/ Worker_Clock(w)

\* ============================================================== callbacks
\* the engine invokes one of the callbacks of Twitch::Messaging::User on
\* one of its threads
Deliver(t) ==
    /\ Running /\ EngineActive /\ pc[t] = "idle"
    /\ Calls < MaxCallbacks
    /\ \E cb \in Callbacks :
         pc' = [pc EXCEPT ![t] = CASE cb = "LogIn" -> "li_diag"
                                   [] cb = "LogOut" -> "lo_check"
                                   [] cb = "Doom" -> "doom"]
    /\ UNCHANGED <<mainv, session, locals, awaitv, observed, terminated>>

\* the callback returns to the engine
Return(t, cb) ==
    /\ pc' = [pc EXCEPT ![t] = "idle"]
    /\ done' = [done EXCEPT ![cb] = @ + 1]
    /\ lifecycle' = IF cb \in {"LogIn", "LogOut"} THEN cb ELSE lifecycle
    /\ idx' = [idx EXCEPT ![t] = 0]
    /\ joined' = [joined EXCEPT ![t] = <<>>]
    /\ joinTarget' = [joinTarget EXCEPT ![t] = "none"]

\* Doom that also asks the engine to log out
DoomLogsOut(t) ==
    /\ Running /\ pc[t] = "doom"
    /\ diags' = Send(Diag(4, "** SERVER DISCONNECT IMMINENT **"))
    /\ tmiCommands' = Append(tmiCommands, <<"LogOut", "Bye! BibleThump">>)
    /\ Return(t, "Doom")
    /\ UNCHANGED <<mainv, session, awaitv, notified, stopped, events,
                   terminated>>

\* Impl::Doom
Doom(t) ==
    /\ Running /\ pc[t] = "doom"
    /\ diags' = Send(Diag(4, "** SERVER DISCONNECT IMMINENT **"))
    /\ Return(t, "Doom")
    /\ UNCHANGED <<mainv, session, awaitv, tmiCommands, notified, stopped,
                   events, terminated>>

\* Impl::LogIn: SendDiagnosticInformationString(4, "Logged in.")
LogIn_Diag(t) ==
    /\ Running /\ pc[t] = "li_diag"
    /\ diags' = Send(Diag(4, "Logged in."))
    /\ pc' = [pc EXCEPT ![t] = "li_join"]
    /\ idx' = [idx EXCEPT ![t] = 1]
    /\ UNCHANGED <<mainv, session, joined, joinTarget, awaitv, tmiCommands,
                   done, lifecycle, notified, stopped, events, terminated>>

\* LogIn_Join with the loop ending one element early
LogIn_JoinOffByOne(t) ==
    /\ Running /\ pc[t] = "li_join"
    /\ IF idx[t] < Len(channelsToJoin)
       THEN /\ tmiCommands' = Append(tmiCommands, <<"Join", channelsToJoin[idx[t]]>>)
            /\ joined' = [joined EXCEPT ![t] = Append(@, channelsToJoin[idx[t]])]
            /\ idx' = [idx EXCEPT ![t] = @ + 1]
            /\ pc' = pc
       ELSE /\ pc' = [pc EXCEPT ![t] = "sw_check"]
            /\ UNCHANGED <<tmiCommands, joined, idx>>
    /\ UNCHANGED <<mainv, session, joinTarget, awaitv, diags, done, lifecycle,
                   notified, stopped, events, terminated>>

\* Impl::LogIn: for (const auto& channel: channelsToJoin) tmi.Join(channel);
\* one iteration, or the end of the loop and the call of StartWorker
LogIn_Join(t) ==
    /\ Running /\ pc[t] = "li_join"
    /\ IF idx[t] <= Len(channelsToJoin)
       THEN /\ tmiCommands' = Append(tmiCommands, <<"Join", channelsToJoin[idx[t]]>>)
            /\ joined' = [joined EXCEPT ![t] = Append(@, channelsToJoin[idx[t]])]
            /\ idx' = [idx EXCEPT ![t] = @ + 1]
            /\ pc' = pc
       ELSE /\ pc' = [pc EXCEPT ![t] = "sw_check"]
            /\ UNCHANGED <<tmiCommands, joined, idx>>
    /\ UNCHANGED <<mainv, session, joinTarget, awaitv, diags, done, lifecycle,
                   notified, stopped, events, terminated>>

\* Impl::StartWorker: if (workerThread.joinable()) return;
StartWorker_Check(t) ==
    /\ Running /\ pc[t] = "sw_check"
    /\ IF Joinable
       THEN Return(t, "LogIn")
       ELSE pc' = [pc EXCEPT ![t] = "sw_reset"] /\ UNCHANGED <<done, lifecycle, locals>>
    /\ UNCHANGED <<mainv, session, awaitv, diags, tmiCommands, notified,
                   stopped, events, terminated>>

\* StartWorker_Reset that clears loggedOut as well
StartWorker_ResetBoth(t) ==
    /\ Running /\ pc[t] = "sw_reset"
    /\ stopWorker' = FALSE
    /\ loggedOut' = FALSE
    /\ pc' = [pc EXCEPT ![t] = "sw_spawn"]
    /\ UNCHANGED <<mainv, channelsToJoin, mutex, mainThreadEvent,
                   workerWakeCondition, workerThread, wpc, wake, locals,
                   awaitv, observed, terminated>>

\* Impl::StartWorker: stopWorker = false;
StartWorker_Reset(t) ==
    /\ Running /\ pc[t] = "sw_reset"
    /\ stopWorker' = FALSE
    /\ pc' = [pc EXCEPT ![t] = "sw_spawn"]
    /\ UNCHANGED <<mainv, channelsToJoin, mutex, mainThreadEvent,
                   workerWakeCondition, loggedOut, workerThread, wpc, wake,
                   locals, awaitv, observed, terminated>>

\* Impl::StartWorker: workerThread = std::thread(&Impl::Worker, this);
\* the new thread starts running; move-assigning to a std::thread that is
\* joinable calls std::terminate
StartWorker_Spawn(t) ==
    /\ Running /\ pc[t] = "sw_spawn"
    /\ LET w == WorkerName(Cardinality(DOMAIN wpc) + 1) IN
         /\ wpc' = wpc @@ (w :> "w_lock")
         /\ wake' = wake @@ (w :> "none")
         /\ IF Joinable
            THEN /\ terminated' = TRUE
                 /\ UNCHANGED <<workerThread, pc, done, lifecycle, locals>>
            ELSE /\ workerThread' = w
                 /\ Return(t, "LogIn")
                 /\ UNCHANGED terminated
    /\ UNCHANGED <<mainv, channelsToJoin, mutex, mainThreadEvent,
                   workerWakeCondition, loggedOut, stopWorker, awaitv, diags,
                   tmiCommands, notified, stopped, events>>

\* LogOut_Check without the early return
LogOut_CheckNoGuard(t) ==
    /\ Running /\ pc[t] = "lo_check"
    /\ pc' = [pc EXCEPT ![t] = "st_check"]
    /\ UNCHANGED <<mainv, session, locals, awaitv, observed, terminated>>

\* Impl::LogOut: if (loggedOut) return;
LogOut_Check(t) ==
    /\ Running /\ pc[t] = "lo_check"
    /\ IF loggedOut
       THEN Return(t, "LogOut")
       ELSE pc' = [pc EXCEPT ![t] = "st_check"] /\ UNCHANGED <<done, lifecycle, locals>>
    /\ UNCHANGED <<mainv, session, awaitv, diags, tmiCommands, notified,
                   stopped, events, terminated>>

\* StopWorker_Check with the test inverted: a running worker is left alone
StopWorker_CheckInverted(t) ==
    /\ Running /\ pc[t] = "st_check"
    /\ pc' = [pc EXCEPT ![t] = IF Joinable THEN "lo_diag" ELSE "st_lock"]
    /\ UNCHANGED <<mainv, session, locals, awaitv, observed, terminated>>

\* StopWorker_Check for a StopWorker without the joinable test
StopWorker_CheckAlwaysStops(t) ==
    /\ Running /\ pc[t] = "st_check"
    /\ pc' = [pc EXCEPT ![t] = "st_lock"]
    /\ UNCHANGED <<mainv, session, locals, awaitv, observed, terminated>>

\* Impl::StopWorker: if (!workerThread.joinable()) return;
StopWorker_Check(t) ==
    /\ Running /\ pc[t] = "st_check"
    /\ pc' = [pc EXCEPT ![t] = IF Joinable THEN "st_lock" ELSE "lo_diag"]
    /\ UNCHANGED <<mainv, session, locals, awaitv, observed, terminated>>

\* Impl::StopWorker: std::lock_guard< decltype(mutex) > lock(mutex);
StopWorker_Lock(t) ==
    /\ Running /\ pc[t] = "st_lock" /\ mutex = "free"
    /\ mutex' = t
    /\ pc' = [pc EXCEPT ![t] = "st_set"]
    /\ UNCHANGED <<mainv, channelsToJoin, mainThreadEvent,
                   workerWakeCondition, loggedOut, stopWorker, workerThread,
                   wpc, wake, locals, awaitv, observed, terminated>>

\* StopWorker_Set for a session with one condition variable for both
\* purposes: notify_all wakes the threads in AwaitLogOut as well
StopWorker_SetSharedCondition(t) ==
    /\ Running /\ pc[t] = "st_set" /\ mutex = t
    /\ stopWorker' = TRUE
    /\ workerWakeCondition' = {}
    /\ mainThreadEvent' = {}
    /\ wake' = [x \in DOMAIN wake |->
                  IF x \in workerWakeCondition \cup mainThreadEvent
                  THEN "notify" ELSE wake[x]]
    /\ pc' = [pc EXCEPT ![t] = "st_unlock"]
    /\ UNCHANGED <<mainv, channelsToJoin, mutex, loggedOut, workerThread,
                   wpc, locals, awaitv, observed, terminated>>

\* Impl::StopWorker: stopWorker = true; workerWakeCondition.notify_all();
StopWorker_Set(t) ==
    /\ Running /\ pc[t] = "st_set" /\ mutex = t
    /\ stopWorker' = TRUE
    /\ workerWakeCondition' = {}
    /\ wake' = [x \in DOMAIN wake |->
                  IF x \in workerWakeCondition THEN "notify" ELSE wake[x]]
    /\ pc' = [pc EXCEPT ![t] = "st_unlock"]
    /\ UNCHANGED <<mainv, channelsToJoin, mutex, mainThreadEvent, loggedOut,
                   workerThread, wpc, locals, awaitv, observed, terminated>>

\* StopWorker_Unlock for a lock_guard whose scope is the whole function:
\* the mutex is still held when join() is called
StopWorker_UnlockLate(t) ==
    /\ Running /\ pc[t] = "st_unlock" /\ mutex = t
    /\ pc' = [pc EXCEPT ![t] = "st_join"]
    /\ UNCHANGED <<mainv, session, locals, awaitv, observed, terminated>>

\* Impl::StopWorker: the lock_guard's scope ends
StopWorker_Unlock(t) ==
    /\ Running /\ pc[t] = "st_unlock" /\ mutex = t
    /\ mutex' = "free"
    /\ pc' = [pc EXCEPT ![t] = "st_join"]
    /\ UNCHANGED <<mainv, channelsToJoin, mainThreadEvent,
                   workerWakeCondition, loggedOut, stopWorker, workerThread,
                   wpc, wake, locals, awaitv, observed, terminated>>

\* Impl::StopWorker: workerThread.join() is called; join() on a thread that
\* is not joinable throws std::system_error out of the callback
StopWorker_Join(t) ==
    /\ Running /\ pc[t] = "st_join"
    /\ IF Joinable
       THEN /\ joinTarget' = [joinTarget EXCEPT ![t] = workerThread]
            /\ pc' = [pc EXCEPT ![t] = "st_joining"]
       ELSE /\ pc' = [pc EXCEPT ![t] = "threw"]
            /\ UNCHANGED joinTarget
    /\ UNCHANGED <<mainv, session, idx, joined, awaitv, observed, terminated>>

\* JoinReturns for a join() that does not wait for the thread to finish
JoinReturnsAtOnce(w) == w \in DOMAIN wpc

\* TRUE when join() may return for a caller waiting for worker w
JoinReturns(w) == wpc[w] = "exited"

\* Impl::StopWorker: workerThread.join() returns once the thread has
\* finished, and the handle is no longer joinable.  Two join() calls on one
\* std::thread are undefined behaviour: the second may return or throw
StopWorker_Joined(t) ==
    /\ Running /\ pc[t] = "st_joining"
    /\ JoinReturns(joinTarget[t])
    /\ IF workerThread = joinTarget[t]
       THEN /\ workerThread' = "none"
            /\ stopped' = stopped \cup {joinTarget[t]}
            /\ pc' = [pc EXCEPT ![t] = "lo_diag"]
       ELSE /\ UNCHANGED workerThread
            /\ \E throws \in BOOLEAN :
                 IF throws
                 THEN pc' = [pc EXCEPT ![t] = "threw"] /\ stopped' = stopped
                 ELSE /\ pc' = [pc EXCEPT ![t] = "lo_diag"]
                      /\ stopped' = stopped \cup {joinTarget[t]}
    /\ UNCHANGED <<mainv, channelsToJoin, mutex, mainThreadEvent,
                   workerWakeCondition, loggedOut, stopWorker, wpc, wake,
                   locals, awaitv, diags, tmiCommands, done, lifecycle,
                   notified, events, terminated>>

\* Impl::LogOut: SendDiagnosticInformationString(4, "Logged out.")
LogOut_Diag(t) ==
    /\ Running /\ pc[t] = "lo_diag"
    /\ diags' = Send(Diag(4, "Logged out."))
    /\ pc' = [pc EXCEPT ![t] = "lo_lock"]
    /\ UNCHANGED <<mainv, session, locals, awaitv, tmiCommands, done, lifecycle,
                   notified, stopped, events, terminated>>

\* Impl::LogOut: std::lock_guard< decltype(mutex) > lock(mutex);
LogOut_Lock(t) ==
    /\ Running /\ pc[t] = "lo_lock" /\ mutex = "free"
    /\ mutex' = t
    /\ pc' = [pc EXCEPT ![t] = "lo_set"]
    /\ UNCHANGED <<mainv, channelsToJoin, mainThreadEvent,
                   workerWakeCondition, loggedOut, stopWorker, workerThread,
                   wpc, wake, locals, awaitv, observed, terminated>>

\* NotifyOne for a notification that is never made
NotifyNobody(blocked) == {{}}

\* the threads std::condition_variable::notify_one may wake: one of the
\* threads blocked on the condition variable, or nobody when none is
NotifyOne(blocked) == IF blocked = {} THEN {{}} ELSE {{x} : x \in blocked}

\* LogOut_Set for a LogOut that reports "Logged out." inside its critical
\* section
LogOut_SetEmits(t) ==
    /\ Running /\ pc[t] = "lo_set" /\ mutex = t
    /\ loggedOut' = TRUE
    /\ diags' = Send(Diag(4, "Logged out."))
    /\ \E woken \in NotifyOne(mainThreadEvent) :
         /\ mainThreadEvent' = mainThreadEvent \ woken
         /\ wake' = [x \in DOMAIN wake |->
                       IF x \in woken THEN "notify" ELSE wake[x]]
         /\ notified' = Append(notified, [woken |-> woken,
                                           blocked |-> mainThreadEvent,
                                           workers |-> DOMAIN wpc])
    /\ pc' = [pc EXCEPT ![t] = "lo_unlock"]
    /\ UNCHANGED <<mainv, channelsToJoin, mutex, workerWakeCondition,
                   stopWorker, workerThread, wpc, locals, awaitv,
                   tmiCommands, done, lifecycle, stopped, events, terminated>>

\* Impl::LogOut: loggedOut = true; mainThreadEvent.notify_one();
LogOut_Set(t) ==
    /\ Running /\ pc[t] = "lo_set" /\ mutex = t
    /\ loggedOut' = TRUE
    /\ \E woken \in NotifyOne(mainThreadEvent) :
         /\ mainThreadEvent' = mainThreadEvent \ woken
         /\ wake' = [x \in DOMAIN wake |->
                       IF x \in woken THEN "notify" ELSE wake[x]]
         /\ notified' = Append(notified, [woken |-> woken,
                                           blocked |-> mainThreadEvent,
                                           workers |-> DOMAIN wpc])
    /\ pc' = [pc EXCEPT ![t] = "lo_unlock"]
    /\ UNCHANGED <<mainv, channelsToJoin, mutex, workerWakeCondition,
                   stopWorker, workerThread, wpc, locals, awaitv, diags,
                   tmiCommands, done, lifecycle, stopped, events, terminated>>

\* Impl::LogOut returns: the lock_guard releases the mutex
LogOut_Unlock(t) ==
    /\ Running /\ pc[t] = "lo_unlock" /\ mutex = t
    /\ mutex' = "free"
    /\ Return(t, "LogOut")
    /\ UNCHANGED <<mainv, channelsToJoin, mainThreadEvent,
                   workerWakeCondition, loggedOut, stopWorker, workerThread,
                   wpc, wake, awaitv, diags, tmiCommands, notified, stopped,
                   events, terminated>>

LogIn(t) ==
    \/ LogIn_Diag(t)
    \/ LogIn_Join(t)
    \/ StartWorker_Check(t)
    \/ StartWorker_Reset(t)
    \/ StartWorker_Spawn(t)

LogOut(t) ==
    \/ LogOut_Check(t)
    \/ StopWorker_Check(t)
    \/ StopWorker_Lock(t)
    \/ StopWorker_Set(t)
    \/ StopWorker_Unlock(t)
    \/ StopWorker_Join(t)
    \/ StopWorker_Joined(t)
    \/ LogOut_Diag(t)
    \/ LogOut_Lock(t)
    \/ LogOut_Set(t)
    \/ LogOut_Unlock(t)

\* ======================================================== event formatter
\* A std::string is the sequence of its pieces: the empty string is <<>>,
\* concatenation is \o, and a piece is a literal of a format string or the
\* text of an argument.

\* printf's %02d and %03u
Pad2(n) == IF n < 10 THEN <<"0", ToString(n)>> ELSE <<ToString(n)>>
Pad3(n) == IF n < 10 THEN <<"00", ToString(n)>>
           ELSE IF n < 100 THEN <<"0", ToString(n)>> ELSE <<ToString(n)>>

\* FormatTimestamp: strftime "%T" of the local time (a zone without offset),
\* then ".%03u" of the milliseconds
FormatTimestamp(time, milliseconds) ==
    Pad2((time \div 3600) % 24) \o <<":">> \o Pad2((time \div 60) % 60)
      \o <<":">> \o Pad2(time % 60) \o <<".">> \o Pad3(milliseconds)

\* FormatTimestamp: char buffer[13]
BufferSize == 13

\* the arguments FormatTimestamp is applied to: seconds since the epoch and
\* an unsigned int of milliseconds
Times == {0, 45296, 86399}
Milliseconds == {0, 7, 99, 999, 1000, 2147483647}

\* the number of decimal digits of n
RECURSIVE Digits(_)
Digits(n) == IF n < 10 THEN 1 ELSE 1 + Digits(n \div 10)

\* the digits "%03u" prints: at least three
MillisecondDigits(milliseconds) ==
    IF Digits(milliseconds) < 3 THEN 3 ELSE Digits(milliseconds)

\* FormatTimestamp: the bytes of buffer in use after
\* sprintf(buffer + 8, ".%03u", milliseconds): the eight characters of
\* strftime's "%T", the point, the digits and the terminating NUL
FormatTimestampWritten(milliseconds) ==
    8 + 1 + MillisecondDigits(milliseconds) + 1

\* FormatTimestamp: what a call can do.  A sprintf that stays inside buffer
\* returns the text; one that writes past its end is undefined behaviour:
\* the bytes land in unused stack and the text is returned all the same,
\* or the process is aborted
FormatTimestampRun(time, milliseconds) ==
    LET returned ==
            [text |-> FormatTimestamp(time, milliseconds),
             chars |-> 8 + 1 + MillisecondDigits(milliseconds),
             digits |-> MillisecondDigits(milliseconds),
             written |-> FormatTimestampWritten(milliseconds),
             aborted |-> FALSE]
    IN  IF FormatTimestampWritten(milliseconds) <= BufferSize
        THEN {returned}
        ELSE {returned,
              [text |-> <<>>, chars |-> 0, digits |-> 0,
               written |-> FormatTimestampWritten(milliseconds),
               aborted |-> TRUE]}

\* one call of FormatTimestamp
FormatTimestampCall ==
    /\ ~terminated
    /\ BagCardinality(events) < MaxEvents
    /\ \E time \in Times, milliseconds \in Milliseconds :
         \E r \in FormatTimestampRun(time, milliseconds) :
            /\ events' = events (+) SetToBag({[kind |-> "FormatTimestamp",
                                               info |-> [time |-> time,
                                                         milliseconds |-> milliseconds],
                                               out |-> r]})
            /\ terminated' = r.aborted
    /\ UNCHANGED <<mainv, session, pc, locals, awaitv, diags, tmiCommands,
                   done, lifecycle, notified, stopped>>

\* SystemAbstractions::sprintf and SendDiagnosticInformationFormatted: the
\* pieces of the format with every conversion (%s, %zu, %d) replaced by the
\* next argument; args are strings, numbers already converted
RECURSIVE Format(_, _)
Format(fmt, args) ==
    IF fmt = <<>> THEN <<>>
    ELSE IF Head(fmt) \in {"%s", "%zu", "%d"}
         THEN Head(args) \o Format(Tail(fmt), Tail(args))
         ELSE <<Head(fmt)>> \o Format(Tail(fmt), args)

\* DiagnosticsSender::SendDiagnosticInformationFormatted(level, fmt, ...)
Formatted(level, fmt, args) == <<level, Format(fmt, args)>>

\* the text of a number converted by %zu or %d
Number(n) == <<ToString(n)>>

\* the MessageInfo values the engine delivers
MessageInfos ==
    [channel : {<<"chan">>}, user : {<<"bob">>},
     displayName : {<<>>, <<"Bob">>}, bits : {0, 50},
     isAction : BOOLEAN, messageContent : {<<"hi">>},
     timestamp : {45296}, timeMilliseconds : {7}]

\* the ClearInfo values the engine delivers
ClearInfos ==
    [type : {"ClearAll", "ClearMessage", "Timeout", "Ban", "Unknown"},
     channel : {<<"chan">>}, user : {<<"bob">>},
     reason : {<<>>, <<"spam">>}, duration : {600},
     offendingMessageContent : {<<"hi">>},
     timestamp : {45296}, timeMilliseconds : {7}]

\* the states the file cert.pem can be found in: whether Open succeeds, its
\* size and the number of bytes Read delivers
CertFiles ==
    {f \in [opens : BOOLEAN, size : {0, 2}, read : 0..2] :
        /\ f.read <= f.size
        /\ ~f.opens => (f.size = 0 /\ f.read = 0)}

\* UserDisplayName with the two names exchanged
UserDisplayNameSwapped(messageInfo) ==
    IF messageInfo.displayName = <<>> THEN messageInfo.displayName
    ELSE messageInfo.user

\* Impl::Message: the name a message is rendered with
UserDisplayName(messageInfo) ==
    IF messageInfo.displayName = <<>> THEN messageInfo.user
    ELSE messageInfo.displayName

\* MessageBits without the test of the bits count
MessageBitsAlways(messageInfo) ==
    [level |-> 3,
     bits |-> Format(<<" (", "%zu", " bits)">>, <<Number(messageInfo.bits)>>)]

\* Impl::Message: the level and the bits clause
MessageBits(messageInfo) ==
    IF messageInfo.bits > 0
    THEN [level |-> 3,
          bits |-> Format(<<" (", "%zu", " bits)">>,
                          <<Number(messageInfo.bits)>>)]
    ELSE [level |-> 2, bits |-> <<>>]

\* MessageLine for a handler that reports an action one level higher
MessageLineActionLevel(messageInfo) ==
    LET userDisplayName == UserDisplayName(messageInfo)
        b == MessageBits(messageInfo)
        timestamp == FormatTimestamp(messageInfo.timestamp,
                                     messageInfo.timeMilliseconds)
        args == <<timestamp, messageInfo.channel, userDisplayName, b.bits,
                  messageInfo.messageContent>>
    IN  IF messageInfo.isAction
        THEN Formatted(b.level + 1, <<"[", "%s", " ", "%s", "] ** ", "%s",
                                        "%s", "%s", " **">>, args)
        ELSE Formatted(b.level, <<"[", "%s", " ", "%s", "] ", "%s", "%s",
                                    ": ", "%s">>, args)

\* Impl::Message: the diagnostic emitted for a message
MessageLine(messageInfo) ==
    LET userDisplayName == UserDisplayName(messageInfo)
        b == MessageBits(messageInfo)
        timestamp == FormatTimestamp(messageInfo.timestamp,
                                     messageInfo.timeMilliseconds)
        args == <<timestamp, messageInfo.channel, userDisplayName, b.bits,
                  messageInfo.messageContent>>
    IN  IF messageInfo.isAction
        THEN Formatted(b.level, <<"[", "%s", " ", "%s", "] ** ", "%s", "%s",
                                    "%s", " **">>, args)
        ELSE Formatted(b.level, <<"[", "%s", " ", "%s", "] ", "%s", "%s",
                                    ": ", "%s">>, args)

\* ClearReason with the clause appended whatever the reason
ClearReasonAlways(clearInfo) == <<"; reason: ">> \o clearInfo.reason

\* Impl::Clear: if (!clearInfo.reason.empty()) reason = "; reason: " + ...
ClearReason(clearInfo) ==
    IF clearInfo.reason # <<>> THEN <<"; reason: ">> \o clearInfo.reason
    ELSE <<>>

\* Impl::Clear: the diagnostic emitted for a moderation event
ClearLine(clearInfo) ==
    LET timestamp == FormatTimestamp(clearInfo.timestamp,
                                     clearInfo.timeMilliseconds)
        reason == ClearReason(clearInfo)
        head == <<"[", "%s", " ", "%s">>
        at == <<timestamp, clearInfo.channel>>
    IN  CASE clearInfo.type = "ClearAll" ->
               Formatted(3, head \o <<"] ** CLEAR CHAT **">>, at)
          [] clearInfo.type = "ClearMessage" ->
               Formatted(3, head \o <<"] Message from ", "%s",
                                      " has been deleted (was \"", "%s",
                                      "\")">>,
                         at \o <<clearInfo.user,
                                 clearInfo.offendingMessageContent>>)
          [] clearInfo.type = "Timeout" ->
               Formatted(3, head \o <<"] User ", "%s",
                                      " has been timed out for ", "%zu",
                                      " seconds", "%s">>,
                         at \o <<clearInfo.user, Number(clearInfo.duration),
                                 reason>>)
          [] clearInfo.type = "Ban" ->
               Formatted(3, head \o <<"] User ", "%s",
                                      " has been banned from the channel",
                                      "%s">>,
                         at \o <<clearInfo.user, reason>>)
          [] OTHER ->
               Formatted(ERROR,
                         head \o <<"] ** Unknown type of clear announcement **">>,
                         at)

\* the values the engine delivers to the other content callbacks
MembershipInfos == [channel : {<<"chan">>}, user : {<<"bob">>}]
NoticeInfos ==
    [channel : {<<>>, <<"chan">>}, id : {<<"msg_id">>}, message : {<<"hi">>}]
HostInfos ==
    [on : BOOLEAN, hosting : {<<"chan">>}, beingHosted : {<<"other">>},
     viewers : {5}]
RoomModeChangeInfos ==
    [channelName : {<<"chan">>}, mode : {<<"slow">>}, parameter : {30}]
SubInfos ==
    [type : {"Sub", "Resub", "Gifted", "MysteryGift", "Unknown",
             "Unrecognized"},
     channel : {<<"chan">>}, user : {<<"bob">>}, planName : {<<"Prime">>},
     months : {3}, senderCount : {2}, massGiftCount : {4},
     recipientDisplayName : {<<"Amy">>}, systemMessage : {<<"sys">>},
     userMessage : {<<"hi">>}, timestamp : {45296}, timeMilliseconds : {7}]
RaidInfos ==
    [channel : {<<"chan">>}, raider : {<<"bob">>}, viewers : {5},
     systemMessage : {<<"sys">>}, timestamp : {45296},
     timeMilliseconds : {7}]
RitualInfos ==
    [channel : {<<"chan">>}, ritual : {<<"new_chatter">>}, user : {<<"bob">>},
     systemMessage : {<<"sys">>}, timestamp : {45296},
     timeMilliseconds : {7}]

\* JoinLine for a handler that reports a join at the level of chat
JoinLineAsChat(membershipInfo) ==
    Formatted(2, <<"[", "%s", "] +", "%s">>,
              <<membershipInfo.channel, membershipInfo.user>>)

\* Impl::Join and Impl::Leave
JoinLine(membershipInfo) ==
    Formatted(1, <<"[", "%s", "] +", "%s">>,
              <<membershipInfo.channel, membershipInfo.user>>)
LeaveLine(membershipInfo) ==
    Formatted(1, <<"[", "%s", "] -", "%s">>,
              <<membershipInfo.channel, membershipInfo.user>>)

\* Impl::Notice
NoticeLine(noticeInfo) ==
    IF noticeInfo.channel = <<>>
    THEN Formatted(3, <<"** Server NOTICE ", "%s", ": ", "%s", " **">>,
                   <<noticeInfo.id, noticeInfo.message>>)
    ELSE Formatted(3, <<"[", "%s", "] NOTICE ", "%s", ": ", "%s">>,
                   <<noticeInfo.channel, noticeInfo.id, noticeInfo.message>>)

\* Impl::Host
HostLine(hostInfo) ==
    IF hostInfo.on
    THEN Formatted(3, <<"[", "%s", "] Now hosting ", "%s", " (", "%zu",
                        " viewers)">>,
                   <<hostInfo.hosting, hostInfo.beingHosted,
                     Number(hostInfo.viewers)>>)
    ELSE Formatted(3, <<"[", "%s", "] No longer hosting anyone">>,
                   <<hostInfo.hosting>>)

\* Impl::RoomModeChange
RoomModeChangeLine(roomModeChangeInfo) ==
    Formatted(2, <<"[", "%s", "] Room mode ", "%s", ": ", "%d">>,
              <<roomModeChangeInfo.channelName, roomModeChangeInfo.mode,
                Number(roomModeChangeInfo.parameter)>>)

\* SubLine for a handler that takes every unlisted type for a new
\* subscription
SubLineDefaultsToSub(subInfo) ==
    Formatted(3, <<"[", "%s", " ", "%s", "] SUB (new: ", "%s", ") ", "%s",
                   ": ", "%s", " [", "%s", "]">>,
              <<FormatTimestamp(subInfo.timestamp, subInfo.timeMilliseconds),
                subInfo.channel, subInfo.planName, subInfo.user,
                subInfo.systemMessage, subInfo.userMessage>>)

\* Impl::Sub
SubLine(subInfo) ==
    LET timestamp == FormatTimestamp(subInfo.timestamp,
                                     subInfo.timeMilliseconds)
        head == <<"[", "%s", " ", "%s">>
        at == <<timestamp, subInfo.channel>>
    IN  CASE subInfo.type = "Sub" ->
               Formatted(3, head \o <<"] SUB (new: ", "%s", ") ", "%s", ": ",
                                      "%s", " [", "%s", "]">>,
                         at \o <<subInfo.planName, subInfo.user,
                                 subInfo.systemMessage, subInfo.userMessage>>)
          [] subInfo.type = "Resub" ->
               Formatted(3, head \o <<"] SUB (renew ", "%zu", ": ", "%s",
                                      ") ", "%s", ": ", "%s", " [", "%s",
                                      "]">>,
                         at \o <<Number(subInfo.months), subInfo.planName,
                                 subInfo.user, subInfo.systemMessage,
                                 subInfo.userMessage>>)
          [] subInfo.type = "Gifted" ->
               Formatted(3, head \o <<"] SUB (gift from ", "%s", " [", "%zu",
                                      " sent total]: ", "%s", ") ", "%s",
                                      ": ", "%s", " [", "%s", "]">>,
                         at \o <<subInfo.user, Number(subInfo.senderCount),
                                 subInfo.planName,
                                 subInfo.recipientDisplayName,
                                 subInfo.systemMessage, subInfo.userMessage>>)
          [] subInfo.type = "MysteryGift" ->
               Formatted(3, head \o <<"] SUB (mystery gift to ", "%zu",
                                      " users from ", "%s", " [", "%zu",
                                      " sent total]) ", "%s", " [", "%s",
                                      "]">>,
                         at \o <<Number(subInfo.massGiftCount), subInfo.user,
                                 Number(subInfo.senderCount),
                                 subInfo.systemMessage, subInfo.userMessage>>)
          [] OTHER ->
               Formatted(ERROR,
                         head \o <<"] ** Unknown type of sub announcement **">>,
                         at)

\* Impl::Raid
RaidLine(raidInfo) ==
    Formatted(3, <<"[", "%s", " ", "%s", "] RAID (", "%s", ": ", "%zu",
                   " viewers) ", "%s">>,
              <<FormatTimestamp(raidInfo.timestamp, raidInfo.timeMilliseconds),
                raidInfo.channel, raidInfo.raider, Number(raidInfo.viewers),
                raidInfo.systemMessage>>)

\* Impl::Ritual
RitualLine(ritualInfo) ==
    Formatted(3, <<"[", "%s", " ", "%s", "] RITUAL ", "%s", " (", "%s", ") ",
                   "%s">>,
              <<FormatTimestamp(ritualInfo.timestamp,
                                ritualInfo.timeMilliseconds),
                ritualInfo.channel, ritualInfo.ritual, ritualInfo.user,
                ritualInfo.systemMessage>>)

\* ConnectionFactoryResult for a factory that does not compare the number
\* of bytes read with the size of the file
ConnectionFactoryResultAnyRead(file) ==
    IF ~file.opens
    THEN [connection |-> "absent",
          diags |-> <<Diag(ERROR, "unable to open root CA certificates file")>>]
    ELSE [connection |-> "connection", diags |-> <<>>]

\* the factory set by Lurker::Configure: the connection returned ("absent"
\* for nullptr) and the diagnostics handed to the delegate
ConnectionFactoryResult(file) ==
    LET path == <<"<exe directory>", "/cert.pem">> IN
    IF ~file.opens
    THEN [connection |-> "absent",
          diags |-> <<Formatted(ERROR,
                                <<"unable to open root CA certificates file '",
                                  "%s", "'">>, <<path>>)>>]
    ELSE IF file.read # file.size
    THEN [connection |-> "absent",
          diags |-> <<Diag(ERROR,
                           "unable to read root CA certificates file")>>]
    ELSE [connection |-> "connection", diags |-> <<>>]

\* Event for a handler that locks the session mutex around its work
EventLocked(t, kind, info, out, emitted) ==
    /\ Running /\ EngineActive /\ pc[t] = "idle"
    /\ mutex = "free"
    /\ BagCardinality(events) < MaxEvents
    /\ events' = events (+) SetToBag({[kind |-> kind, info |-> info,
                                       out |-> out]})
    /\ diags' = diags (+) emitted
    /\ UNCHANGED <<mainv, session, pc, locals, awaitv, tmiCommands, done,
                   lifecycle, notified, stopped, terminated>>

\* Event for a handler that sends its line twice
EventEmitsTwice(t, kind, info, out, emitted) ==
    /\ Running /\ EngineActive /\ pc[t] = "idle"
    /\ BagCardinality(events) < MaxEvents
    /\ events' = events (+) SetToBag({[kind |-> kind, info |-> info,
                                       out |-> out]})
    /\ diags' = diags (+) emitted (+) emitted
    /\ UNCHANGED <<mainv, session, pc, locals, awaitv, tmiCommands, done,
                   lifecycle, notified, stopped, terminated>>

\* a content callback or a factory call of the engine: it runs on an engine
\* thread that is in no other callback and returns at once
Event(t, kind, info, out, emitted) ==
    /\ Running /\ EngineActive /\ pc[t] = "idle"
    /\ BagCardinality(events) < MaxEvents
    /\ events' = events (+) SetToBag({[kind |-> kind, info |-> info,
                                       out |-> out]})
    /\ diags' = diags (+) emitted
    /\ UNCHANGED <<mainv, session, pc, locals, awaitv, tmiCommands, done,
                   lifecycle, notified, stopped, terminated>>

\* Impl::Message
Message(t) ==
    \E messageInfo \in MessageInfos :
       Event(t, "Message", messageInfo, MessageLine(messageInfo),
             SetToBag({MessageLine(messageInfo)}))

\* Impl::Clear
Clear(t) ==
    \E clearInfo \in ClearInfos :
       Event(t, "Clear", clearInfo, ClearLine(clearInfo),
             SetToBag({ClearLine(clearInfo)}))

\* Impl::Join (a user joined a channel)
Join(t) ==
    \E membershipInfo \in MembershipInfos :
       Event(t, "Join", membershipInfo, JoinLine(membershipInfo),
             SetToBag({JoinLine(membershipInfo)}))

\* Impl::Leave
Leave(t) ==
    \E membershipInfo \in MembershipInfos :
       Event(t, "Leave", membershipInfo, LeaveLine(membershipInfo),
             SetToBag({LeaveLine(membershipInfo)}))

\* Impl::Notice
Notice(t) ==
    \E noticeInfo \in NoticeInfos :
       Event(t, "Notice", noticeInfo, NoticeLine(noticeInfo),
             SetToBag({NoticeLine(noticeInfo)}))

\* Impl::Host
Host(t) ==
    \E hostInfo \in HostInfos :
       Event(t, "Host", hostInfo, HostLine(hostInfo),
             SetToBag({HostLine(hostInfo)}))

\* Impl::RoomModeChange
RoomModeChange(t) ==
    \E roomModeChangeInfo \in RoomModeChangeInfos :
       Event(t, "RoomModeChange", roomModeChangeInfo,
             RoomModeChangeLine(roomModeChangeInfo),
             SetToBag({RoomModeChangeLine(roomModeChangeInfo)}))

\* Impl::Sub
Sub(t) ==
    \E subInfo \in SubInfos :
       Event(t, "Sub", subInfo, SubLine(subInfo),
             SetToBag({SubLine(subInfo)}))

\* Impl::Raid
Raid(t) ==
    \E raidInfo \in RaidInfos :
       Event(t, "Raid", raidInfo, RaidLine(raidInfo),
             SetToBag({RaidLine(raidInfo)}))

\* Impl::Ritual
Ritual(t) ==
    \E ritualInfo \in RitualInfos :
       Event(t, "Ritual", ritualInfo, RitualLine(ritualInfo),
             SetToBag({RitualLine(ritualInfo)}))

\* the ten content callbacks
Handler(t) ==
    \/ Join(t)
    \/ Leave(t)
    \/ Message(t)
    \/ Notice(t)
    \/ Host(t)
    \/ RoomModeChange(t)
    \/ Clear(t)
    \/ Sub(t)
    \/ Raid(t)
    \/ Ritual(t)

\* the engine asks the connection factory for a connection
ConnectionFactory(t) ==
    \E file \in CertFiles :
       LET r == ConnectionFactoryResult(file) IN
       Event(t, "ConnectionFactory", file, r.connection,
             IF r.diags = <<>> THEN EmptyBag ELSE SetToBag({r.diags[1]}))

\* ========================================================= specifications
Main ==
    \/ ProcessCommandLineArguments
    \/ Configure
    \/ InitiateLogIn
    \/ MainLoop
    \/ MainLoopReturn
    \/ RestoreHandler
    \/ InitiateLogOut
    \/ Destroy
    \/ InterruptHandler

Next ==
    \/ Main
    \/ \E t \in Waiters : AwaitLogOut(t)
    \/ \E t \in EngineThreads : Deliver(t) \/ Doom(t) \/ LogIn(t) \/ LogOut(t)
    \/ \E w \in WorkerNames : Worker(w)

\* the program with an engine that delivers its callbacks one at a time
Spec == Init /\ [][Next]_vars

\* the steps of the controlling thread outside AwaitLogOut
MainStep ==
    \/ ProcessCommandLineArguments
    \/ Configure
    \/ InitiateLogIn
    \/ MainLoop
    \/ MainLoopReturn
    \/ RestoreHandler
    \/ InitiateLogOut
    \/ Destroy

\* scheduling: a thread that can run does run; the 250 ms of a wait_for
\* do elapse however often the waiter is woken before; a thread that asks
\* for the mutex gets it, the other threads holding it only for the few
\* statements of a critical section.  Nothing is assumed of the engine's
\* callbacks (beyond their leaving a critical section they have entered),
\* of the interrupt or of spurious wake-ups
Fairness ==
    /\ WF_vars(MainStep)
    /\ WF_vars(AwaitLogOut_Pred("main") \/ AwaitLogOut_Unlock("main"))
    /\ SF_vars(AwaitLogOut_Timeout("main"))
    /\ SF_vars(AwaitLogOut_Lock("main"))
    /\ SF_vars(AwaitLogOut_Relock("main"))
    /\ \A w \in WorkerNames :
         WF_vars(Worker_Test(w) \/ Worker_Pred(w) \/ Worker_Clock(w))
    /\ \A t \in EngineThreads :
         WF_vars(StopWorker_Set(t) \/ StopWorker_Unlock(t)
                   \/ LogOut_Set(t) \/ LogOut_Unlock(t))

\* the program of Spec, started with one channel, under fair scheduling
InitFair == Init /\ Len(argv) = 1
SpecFair == InitFair /\ [][Next]_vars /\ Fairness

\* scheduling of the worker and of the logout callback: the worker gets the
\* mutex when it asks for it, and so does the callback; the callback's
\* statements outside a critical section are executed, and join() returns
\* once the thread has finished
FairnessStop ==
    /\ SF_vars(\E w \in WorkerNames : Worker_Lock(w) \/ Worker_Relock(w))
    /\ SF_vars(StopWorker_Lock("e1") \/ LogOut_Lock("e1"))
    /\ WF_vars(LogOut_Check("e1") \/ StopWorker_Check("e1")
                 \/ StopWorker_Join("e1") \/ StopWorker_Joined("e1")
                 \/ LogOut_Diag("e1"))

\* the program of SpecFair with the worker and the logout callback
\* scheduled fairly as well
SpecFairStop == InitFair /\ [][Next]_vars /\ Fairness /\ FairnessStop

\* the program with an engine that only reports chat traffic and asks for
\* connections: no login, logout or doom callback
NextEvents ==
    \/ Main
    \/ AwaitLogOut("main")
    \/ \E t \in EngineThreads : Handler(t) \/ ConnectionFactory(t)

InitEvents == Init /\ Len(argv) = 1
SpecEvents == InitEvents /\ [][NextEvents]_vars

\* FormatTimestamp applied to every pair of its arguments
SpecTimestamp == InitEvents /\ [][FormatTimestampCall]_vars

\* the program with an engine that delivers callbacks on two threads
InitConc == InitWith({"e1", "e2"}, {"main"}) /\ Len(argv) = 1
SpecConc == InitConc /\ [][Next]_vars

\* Lurker::AwaitLogOut is public: a second thread of the client calls it
AuxAwaitLogOut ==
    /\ Running /\ mpc \notin {"args", "configure"}
    /\ apc["aux"] = "none"
    /\ AwaitLogOut_Call("aux")
    /\ UNCHANGED <<mainv, session, pc, locals, awaitResult, timedOut,
                   observed, terminated>>

\* the second thread takes the value returned
AuxAwaitLogOutReturn ==
    /\ Running /\ apc["aux"] = "a_ret"
    /\ AwaitLogOut_Return("aux")
    /\ UNCHANGED <<mainv, session, pc, locals, observed, terminated>>

NextWaiters == Next \/ AuxAwaitLogOut \/ AuxAwaitLogOutReturn

\* the program with two threads waiting in AwaitLogOut
InitWaiters == InitWith({"e1"}, {"main", "aux"}) /\ Len(argv) = 1
SpecWaiters == InitWaiters /\ [][NextWaiters]_vars

\* ================================================================= claims
\* the Join commands received by the engine, in order
JoinsIssued ==
    LET js == SelectSeq(tmiCommands, LAMBDA c : c[1] = "Join")
    IN  [i \in 1..Len(js) |-> js[i][2]]

\* s repeated n times
RECURSIVE Repeat(_, _)
Repeat(s, n) == IF n = 0 THEN <<>> ELSE s \o Repeat(s, n - 1)

LoggedOutDiag == Diag(4, "Logged out.")
DoomDiag == Diag(4, "** SERVER DISCONNECT IMMINENT **")

\* the workers that have not finished
Live == {w \in DOMAIN wpc : wpc[w] # "exited"}

\* C1: one login-succeeded callback issues exactly one Join per element of
\* the recorded channel list, in list order, and nothing else is joined:
\* when the callback's loop has ended it has issued exactly channelsToJoin,
\* inside the loop it has issued the prefix it has passed, and the engine
\* has received the list once per callback and no other Join.
C1_JoinsInOrder ==
    /\ \A t \in EngineThreads :
         /\ pc[t] = "li_join" =>
              /\ idx[t] \in 1..(Len(channelsToJoin) + 1)
              /\ joined[t] = SubSeq(channelsToJoin, 1, idx[t] - 1)
         /\ pc[t] \in {"sw_check", "sw_reset", "sw_spawn"} =>
              joined[t] = channelsToJoin
    /\ JoinsIssued = Repeat(channelsToJoin, done["LogIn"]) \o joined["e1"]

\* C1 witness: a second login callback has ended its loop over a list of
\* two channels
C1_Witness ==
    /\ pc["e1"] = "sw_check" /\ done["LogIn"] = 1
    /\ Len(channelsToJoin) = 2
    /\ JoinsIssued = channelsToJoin \o channelsToJoin

\* C2: LogOut invoked again after it has returned is a no-op: there is
\* never more than one "Logged out." diagnostic nor more than one
\* notification of mainThreadEvent, there is exactly one of each once a
\* logout callback has returned, and a logout callback that finds loggedOut
\* set returns without changing the session or emitting anything.
C2_LogOutIdempotent ==
    /\ [](/\ CopiesIn(LoggedOutDiag, diags) <= 1
          /\ Len(notified) <= 1
          /\ done["LogOut"] >= 1 =>
               CopiesIn(LoggedOutDiag, diags) = 1 /\ Len(notified) = 1)
    /\ [][\A t \in EngineThreads :
            (pc[t] = "lo_check" /\ loggedOut /\ pc'[t] # pc[t]) =>
               /\ pc'[t] = "idle"
               /\ UNCHANGED <<session, mainv, awaitv, diags, tmiCommands,
                              notified, stopped, events>>]_vars

\* C2 witness: two logout callbacks have returned
C2_Witness ==
    /\ done["LogOut"] = 2
    /\ CopiesIn(LoggedOutDiag, diags) = 1 /\ Len(notified) = 1

\* C3: once the join() of StopWorker has returned, the worker it stopped
\* has left its loop for good: it has finished, it holds no lock and it
\* waits on no condition, in every state after the return.
C3_WorkerJoined ==
    /\ \A w \in stopped :
         wpc[w] = "exited" /\ mutex # w /\ w \notin workerWakeCondition
    /\ \A t \in EngineThreads :
         (pc[t] \in {"lo_diag", "lo_lock", "lo_set", "lo_unlock"}
            /\ joinTarget[t] # "none") => joinTarget[t] \in stopped

\* C3 witness: StopWorker has returned from stopping a worker
C3_Witness ==
    /\ pc["e1"] = "lo_diag" /\ joinTarget["e1"] = "w1"
    /\ "w1" \in stopped

\* C4: when AwaitLogOut returns (the lock still held), the value returned
\* is the value of loggedOut; false is returned only after the bounded wait
\* elapsed; a call that began with loggedOut set returns true.
C4_AwaitLogOut ==
    \A t \in Waiters :
      /\ apc[t] = "a_unlock" =>
           /\ mutex = t
           /\ awaitResult[t] = loggedOut
           /\ ~awaitResult[t] => timedOut[t]
           /\ seenAtCall[t] => awaitResult[t]
      /\ apc[t] = "a_ret" =>
           /\ awaitResult[t] => loggedOut
           /\ ~awaitResult[t] => timedOut[t]
           /\ seenAtCall[t] => awaitResult[t]

\* C4 witness: a call that began before the logout returns true
C4_Witness ==
    /\ apc["main"] = "a_unlock" /\ awaitResult["main"]
    /\ ~seenAtCall["main"] /\ loggedOut

\* a lifecycle callback is in progress on some engine thread
InCallback == \E t \in EngineThreads : pc[t] \notin {"off", "idle", "doom"}

\* C5 (as claimed): whenever no login or logout callback is in progress,
\* the worker is running if and only if the last of the login and logout
\* callbacks to have completed is a login.
C5_RunningIffLoggedIn ==
    ~InCallback => ((Live # {}) <=> (lifecycle = "LogIn"))

\* C6: the logout callback stops the worker, then emits "Logged out.", then
\* sets loggedOut: while it takes the lock to set loggedOut and ever after
\* loggedOut is set, the diagnostic has been emitted and every worker that
\* existed when loggedOut was set has finished.
C6_LogOutOrder ==
    /\ \A t \in EngineThreads :
         pc[t] \in {"lo_lock", "lo_set"} =>
           /\ CopiesIn(LoggedOutDiag, diags) >= 1
           /\ Live = {}
           /\ ~Joinable
    /\ loggedOut =>
         /\ CopiesIn(LoggedOutDiag, diags) >= 1
         /\ Len(notified) >= 1
         /\ \A w \in notified[1].workers : wpc[w] = "exited"

\* C6 witness: loggedOut is set after a worker was stopped
C6_Witness ==
    /\ loggedOut /\ Len(notified) = 1
    /\ notified[1].workers = {"w1"} /\ "w1" \in stopped

C8_LoggedOutTerminal == [][loggedOut => loggedOut']_vars

\* C8 witness: a login callback has returned after loggedOut was set
C8_Witness == loggedOut /\ lifecycle = "LogIn" /\ done["LogOut"] >= 1

\* C9 (as claimed): once a logout callback has completed, no worker is
\* running.
C9_NoWorkerAfterLogOut == done["LogOut"] >= 1 => Live = {}

\* C10: the doom callback emits exactly one diagnostic, the disconnect
\* warning, issues no command to the engine and leaves loggedOut,
\* stopWorker, the worker, the mutex and the condition variables alone.
C10_DoomFrame ==
    [][\A t \in EngineThreads :
         (pc[t] = "doom" /\ pc'[t] # pc[t]) =>
            /\ pc'[t] = "idle"
            /\ diags' = diags (+) SetToBag({DoomDiag})
            /\ BagCardinality(diags') = BagCardinality(diags) + 1
            /\ UNCHANGED <<tmiCommands, session, notified, stopped, events>>]_vars

\* C10 witness: a doom callback has returned while the worker was running
C10_Witness ==
    /\ done["Doom"] >= 1 /\ CopiesIn(DoomDiag, diags) = done["Doom"]
    /\ Live # {} /\ ~loggedOut

\* the LogOut commands received by the engine
LogOutsIssued == SelectSeq(tmiCommands, LAMBDA c : c[1] = "LogOut")

\* a login-succeeded callback has been invoked
LogInInvoked ==
    \/ done["LogIn"] >= 1
    \/ \E t \in EngineThreads :
         pc[t] \in {"li_diag", "li_join", "sw_check", "sw_reset", "sw_spawn"}

\* C11: InitiateLogIn records the channel list, issues LogInAnonymously and
\* nothing else (no Join, no diagnostic, no change of the session), and the
\* engine has received no Join command as long as it has not invoked the
\* login-succeeded callback.
C11_NoJoinBeforeLogIn ==
    /\ [](JoinsIssued # <<>> => LogInInvoked)
    /\ [][(mpc = "login" /\ mpc' # mpc) =>
            /\ channelsToJoin' = channels
            /\ tmiCommands' = Append(tmiCommands, <<"LogInAnonymously">>)
            /\ UNCHANGED <<mutex, mainThreadEvent, workerWakeCondition,
                           loggedOut, stopWorker, workerThread, wpc, diags,
                           done, notified>>]_vars

\* C11 witness: InitiateLogIn has returned, main is waiting, the engine has
\* delivered a callback that is not the login and no Join has been issued
C11_Witness ==
    /\ mpc = "await" /\ channelsToJoin = <<"b", "a">>
    /\ done["Doom"] >= 1 /\ ~LogInInvoked /\ JoinsIssued = <<>>

\* C12: loggedOut is set only by the step of the logout callback that sets
\* it, and InitiateLogOut emits "Exiting..." and sends LogOut with the
\* farewell text: it leaves loggedOut, stopWorker, the worker and the
\* threads blocked on the condition variables as they are.
C12_OnlyCallbackSetsLoggedOut ==
    /\ [][(~loggedOut /\ loggedOut') =>
            \E t \in EngineThreads : pc[t] = "lo_set" /\ pc'[t] = "lo_unlock"]_vars
    /\ [][(mpc = "logout" /\ mpc' # mpc) =>
            /\ diags' = diags (+) SetToBag({Diag(3, "Exiting...")})
            /\ tmiCommands' = Append(tmiCommands, <<"LogOut", "Bye! BibleThump">>)
            /\ UNCHANGED <<loggedOut, stopWorker, workerThread, wpc, wake,
                           mainThreadEvent, workerWakeCondition, notified,
                           stopped>>]_vars

\* C12 witness: InitiateLogOut has returned while the worker runs and the
\* session is not logged out
C12_Witness ==
    /\ mpc = "final" /\ Len(LogOutsIssued) = 1
    /\ ~loggedOut /\ Live # {} /\ ~stopWorker

\* C13: main calls InitiateLogOut exactly once, after the wait loop and
\* before its last AwaitLogOut, whatever ended the loop: the engine has
\* received no LogOut command before, exactly one from then on, and the
\* step that leaves the loop always leads to it.
C13_LogOutOnce ==
    /\ [](/\ mpc \in {"args", "configure", "login", "loop", "await",
                      "restore", "logout", "exit_failure"}
               => LogOutsIssued = <<>>
          /\ mpc \in {"final", "done"}
               => LogOutsIssued = <<<<"LogOut", "Bye! BibleThump">>>>)
    /\ [][(mpc \in {"loop", "await"} /\ mpc' \notin {"loop", "await"})
            => mpc' = "restore"]_vars
    /\ [][(mpc = "restore" /\ mpc' # mpc) => mpc' = "logout"]_vars
    /\ [][(mpc = "logout" /\ mpc' # mpc) => mpc' = "final"]_vars

\* C13 witness: main has returned after a loop ended by AwaitLogOut
\* reporting the session logged out, the interrupt flag never set
C13_Witness ==
    /\ mpc = "done" /\ ~shutDown /\ loggedOut
    /\ Len(LogOutsIssued) = 1

\* main has returned after a loop ended by the interrupt flag
C13_WitnessInterrupted ==
    /\ mpc = "done" /\ shutDown /\ ~loggedOut
    /\ Len(LogOutsIssued) = 1

\* C14: once the interrupt flag is set the loop starts no further
\* AwaitLogOut call (the call in progress, if any, is the last), and under
\* fair scheduling main then leaves the loop and calls InitiateLogOut;
\* likewise once the session is logged out main leaves the loop and calls
\* InitiateLogOut.
C14_InterruptEndsLoop ==
    /\ [][(shutDown /\ mpc = "loop") => mpc' # "await"]_vars
    /\ (shutDown /\ mpc \in {"loop", "await"})
          ~> (mpc = "final" /\ Len(LogOutsIssued) = 1)
    /\ (loggedOut /\ mpc \in {"loop", "await"})
          ~> (mpc = "final" /\ Len(LogOutsIssued) = 1)

\* C14 witness: the interrupt arrived while main was blocked in the loop's
\* AwaitLogOut, the worker running, and main has gone on to InitiateLogOut
C14_Witness ==
    /\ mpc = "final" /\ shutDown /\ ~loggedOut /\ Live # {}
    /\ Len(LogOutsIssued) = 1

\* C15: after InitiateLogOut main makes one AwaitLogOut call and no other:
\* when that call returns, with either value, main returns (the process
\* ends, by std::terminate when the worker thread is still joinable), and
\* under fair scheduling the call does return, with or without a logout
\* callback.
C15_FinalWaitBounded ==
    /\ [][(mpc = "final" /\ apc["main"] = "a_ret" /\ apc'["main"] # "a_ret")
            => (mpc' = "done" \/ terminated')]_vars
    /\ [][(mpc = "final" /\ apc["main"] # "a_lock")
            => apc'["main"] # "a_lock"]_vars
    /\ (mpc = "final") ~> (mpc = "done" \/ terminated)

\* C15 witness: main has returned after its last wait elapsed, the engine
\* alive and no logout callback ever delivered
C15_Witness ==
    /\ mpc = "done" /\ ~loggedOut
    /\ done["Doom"] >= 1 /\ done["LogOut"] = 0
    /\ \A t \in EngineThreads : pc[t] \in {"off", "idle"}

\* C16: a command line without channel arguments ends in the error
\* diagnostic, the usage text and EXIT_FAILURE, with Configure,
\* InitiateLogIn and InitiateLogOut never called (no "Configured.", no
\* "Exiting...", no command to the engine, no channel recorded); that is
\* the only way to the failure exit; with one argument or more the
\* channels are the arguments in command-line order, no usage is printed
\* and InitiateLogIn records exactly that list.
C16_Arguments ==
    /\ argv = <<>> => mpc \in {"args", "exit_failure"}
    /\ mpc = "exit_failure" =>
         /\ argv = <<>> /\ usage
         /\ diags = SetToBag({Diag(ERROR, "no channels given")})
         /\ tmiCommands = <<>> /\ channelsToJoin = <<>>
    /\ mpc \notin {"args", "exit_failure"} =>
         /\ argv # <<>> /\ channels = argv /\ ~usage
         /\ CopiesIn(Diag(ERROR, "no channels given"), diags) = 0
    /\ mpc \in {"loop", "await", "restore", "logout", "final", "done"} =>
         channelsToJoin = argv

\* C16 witness: the run without channel arguments has ended
C16_Witness ==
    /\ mpc = "exit_failure" /\ argv = <<>> /\ usage
    /\ CopiesIn(Diag(3, "Configured."), diags) = 0

\* a run with two arguments out of alphabetical order has logged in
C16_WitnessChannels ==
    /\ argv = <<"b", "a">> /\ channelsToJoin = <<"b", "a">>
    /\ JoinsIssued = <<"b", "a">>

\* the number of places where the pieces sub occur in text
Occurrences(text, sub) ==
    Cardinality({i \in 1..(Len(text) - Len(sub) + 1) :
                    SubSeq(text, i, i + Len(sub) - 1) = sub})

\* text ends with the pieces sub
EndsWith(text, sub) ==
    /\ Len(text) >= Len(sub)
    /\ SubSeq(text, Len(text) - Len(sub) + 1, Len(text)) = sub

\* the events of one kind delivered so far
EventsOf(kind) == {e \in BagToSet(events) : e.kind = kind}

\* the event a step delivers
NewEvents ==
    {e \in BagToSet(events') : CopiesIn(e, events') > CopiesIn(e, events)}

\* C17: a connection-factory call that finds cert.pem impossible to open,
\* or delivering fewer bytes than its size, returns no connection and
\* hands exactly one diagnostic, of level ERROR, to the delegate; it leaves
\* loggedOut, stopWorker, the worker and the rest of the session alone,
\* issues no command and does not end the process.
C17_FactoryFailure ==
    [][\A e \in NewEvents :
         (/\ e.kind = "ConnectionFactory"
          /\ (~e.info.opens \/ e.info.read < e.info.size))
         => /\ e.out = "absent"
            /\ BagCardinality(diags') = BagCardinality(diags) + 1
            /\ \E d \in BagToSet(diags') :
                 d[1] = ERROR /\ diags' = diags (+) SetToBag({d})
            /\ UNCHANGED <<session, tmiCommands, mainv, terminated>>
            /\ ~terminated']_vars

\* C17 witness: the factory has failed once on a file that cannot be
\* opened and once on a file read short, main still in its wait loop
C17_Witness ==
    /\ \E e, f \in EventsOf("ConnectionFactory") :
         /\ ~e.info.opens /\ e.out = "absent"
         /\ f.info.opens /\ f.info.read < f.info.size /\ f.out = "absent"
    /\ BagCardinality(diags) = 3 /\ mpc \in {"loop", "await"}

\* C18: the line of a chat message holds the display name, once, and not
\* the user name when the display name is not empty, and the user name,
\* once, when it is empty.
C18_DisplayName ==
    \A e \in EventsOf("Message") :
       LET m == e.info
           text == e.out[2]
       IN  /\ CopiesIn(e.out, diags) >= 1
           /\ IF m.displayName # <<>>
              THEN /\ Occurrences(text, m.displayName) = 1
                   /\ Occurrences(text, m.user) = 0
              ELSE Occurrences(text, m.user) = 1

\* C18 witness: a message with a display name and one without have been
\* rendered
C18_Witness ==
    \E e, f \in EventsOf("Message") :
       /\ e.info.displayName = <<"Bob">>
       /\ f.info.displayName = <<>> /\ f.info.bits = 0
       /\ Occurrences(f.out[2], <<"bob">>) = 1

\* C19: the line of a chat message with a positive bits count N holds the
\* clause " (N bits)" once, right after the name, and the line of a message
\* without bits holds no piece of such a clause; of two messages that
\* differ in nothing but the bits, one with bits and one without, the one
\* with bits is emitted at the higher level.
C19_Bits ==
    /\ \A e \in EventsOf("Message") :
         LET m == e.info
             text == e.out[2]
             name == IF m.displayName # <<>> THEN m.displayName ELSE m.user
             clause == <<" (", ToString(m.bits), " bits)">>
         IN  IF m.bits > 0
             THEN /\ Occurrences(text, clause) = 1
                  /\ Occurrences(text, name \o clause) = 1
             ELSE /\ Occurrences(text, <<" (">>) = 0
                  /\ Occurrences(text, <<" bits)">>) = 0
                  /\ Occurrences(text, <<ToString(m.bits)>>) = 0
    /\ \A e, f \in EventsOf("Message") :
         (/\ e.info.bits > 0 /\ f.info.bits = 0
          /\ e.info = [f.info EXCEPT !.bits = e.info.bits])
           => e.out[1] > f.out[1]

\* C19 witness: the same message has been rendered with 50 bits and
\* without bits
C19_Witness ==
    \E e, f \in EventsOf("Message") :
       /\ e.info.bits = 50 /\ f.info.bits = 0
       /\ e.info = [f.info EXCEPT !.bits = 50]
       /\ Occurrences(e.out[2], <<" (", "50", " bits)">>) = 1

\* C20: the line of a timeout or ban with an empty reason holds no
\* "; reason: " at all, and with a reason it ends with "; reason: " and the
\* reason, which occur once.
C20_Reason ==
    \A e \in EventsOf("Clear") :
       LET c == e.info
           text == e.out[2]
       IN  c.type \in {"Timeout", "Ban"} =>
             IF c.reason = <<>>
             THEN Occurrences(text, <<"; reason: ">>) = 0
             ELSE /\ EndsWith(text, <<"; reason: ">> \o c.reason)
                  /\ Occurrences(text, <<"; reason: ">>) = 1

\* C20 witness: a timeout without reason and a ban with a reason have been
\* rendered
C20_Witness ==
    \E e, f \in EventsOf("Clear") :
       /\ e.info.type = "Timeout" /\ e.info.reason = <<>>
       /\ f.info.type = "Ban" /\ f.info.reason = <<"spam">>
       /\ EndsWith(f.out[2], <<"; reason: ", "spam">>)

\* the subtypes Impl::Clear and Impl::Sub have a case for
KnownSubtypes(kind) ==
    IF kind = "Clear" THEN {"ClearAll", "ClearMessage", "Timeout", "Ban"}
    ELSE {"Sub", "Resub", "Gifted", "MysteryGift"}

\* C21: a clear or sub event of a subtype without a case of its own emits
\* exactly one diagnostic, of level ERROR, whose text is the timestamp and
\* the channel in brackets followed by the fixed "** Unknown type of clear
\* (or sub) announcement **", with nothing of the event's other fields; the
\* session, the commands sent and the controlling thread are left as they
\* are and the process goes on.
C21_UnknownSubtype ==
    [][\A e \in NewEvents :
         (e.kind \in {"Clear", "Sub"}
            /\ e.info.type \notin KnownSubtypes(e.kind))
         => /\ e.out[1] = ERROR
            /\ e.out[2] =
                 <<"[">> \o FormatTimestamp(e.info.timestamp,
                                            e.info.timeMilliseconds)
                   \o <<" ">> \o e.info.channel
                   \o <<IF e.kind = "Clear"
                        THEN "] ** Unknown type of clear announcement **"
                        ELSE "] ** Unknown type of sub announcement **">>
            /\ diags' = diags (+) SetToBag({e.out})
            /\ BagCardinality(diags') = BagCardinality(diags) + 1
            /\ UNCHANGED <<session, tmiCommands, mainv, terminated>>
            /\ ~terminated']_vars

\* C21 witness: a clear event and a sub event of unknown subtype have been
\* delivered and main is still in its wait loop
C21_Witness ==
    /\ \E e \in EventsOf("Clear") :
         e.info.type = "Unknown" /\ e.info.reason = <<"spam">>
           /\ e.out[1] = ERROR
    /\ \E e \in EventsOf("Sub") :
         e.info.type = "Unrecognized" /\ e.out[1] = ERROR
    /\ mpc \in {"loop", "await"} /\ ~terminated

\* C22 (as claimed): a thread whose next statement reads or writes
\* loggedOut, stopWorker or workerThread holds the mutex: the engine thread
\* in StartWorker (joinable test, stopWorker = false, the assignment of the
\* thread), in LogOut (the test of loggedOut, its assignment) and in
\* StopWorker (joinable test, stopWorker = true, join), the worker at its
\* tests of stopWorker and the thread in AwaitLogOut at its test of
\* loggedOut.
C22_AccessesUnderLock ==
    /\ \A t \in EngineThreads :
         pc[t] \in {"sw_check", "sw_reset", "sw_spawn", "lo_check",
                    "st_check", "st_set", "st_join", "st_joining", "lo_set"}
           => mutex = t
    /\ \A w \in DOMAIN wpc : wpc[w] \in {"w_test", "w_pred"} => mutex = w
    /\ \A t \in Waiters : apc[t] = "a_pred" => mutex = t

\* two engine threads at conflicting accesses, one of them without the
\* mutex: the test of loggedOut against its assignment, the unlocked
\* stopWorker = false against a worker's or StopWorker's access, the
\* joinable test against the assignment of the thread
C22_Race ==
    \E t, u \in EngineThreads :
       /\ t # u
       /\ \/ pc[t] = "lo_check" /\ pc[u] = "lo_set"
          \/ pc[t] = "sw_reset" /\ pc[u] = "st_set"
          \/ pc[t] = "sw_check" /\ pc[u] = "sw_spawn"
          \/ pc[t] = "st_check" /\ pc[u] = "sw_spawn"

\* a thread inside AwaitLogOut, inside a callback, or a worker that has not
\* finished
Active(x) ==
    IF x \in Waiters THEN apc[x] \in {"a_lock", "a_pred", "a_waiting", "a_unlock"}
    ELSE IF x \in EngineThreads THEN pc[x] \notin {"off", "idle", "threw"}
    ELSE x \in Live

\* the thread's next statement can be executed now
CanStep(x) ==
    IF x \in Waiters THEN ENABLED AwaitLogOut(x)
    ELSE IF x \in EngineThreads THEN ENABLED (LogIn(x) \/ LogOut(x) \/ Doom(x))
    ELSE ENABLED Worker(x)

\* the thread x is waiting for: the owner of the mutex when x is about to
\* lock it, the worker when x is inside join(), x itself otherwise
WaitsFor(x) ==
    IF x \in Waiters
    THEN IF apc[x] = "a_lock" \/ (apc[x] = "a_waiting" /\ x \notin mainThreadEvent)
         THEN mutex ELSE x
    ELSE IF x \in EngineThreads
    THEN IF pc[x] \in {"st_lock", "lo_lock"} THEN mutex
         ELSE IF pc[x] = "st_joining" THEN joinTarget[x] ELSE x
    ELSE IF x \in DOMAIN wpc
    THEN IF wpc[x] = "w_lock" \/ (wpc[x] = "w_waiting" /\ x \notin workerWakeCondition)
         THEN mutex ELSE x
    ELSE x

\* C23: no state is a deadlock among a thread in AwaitLogOut, an engine
\* thread in a callback and the worker: every such thread can take its
\* next step, or waits (for the mutex, or in join() for the worker) for a
\* thread that can, directly or through one more thread; an engine thread
\* never holds the mutex at or inside join(); and when the logout callback
\* locks the mutex to set loggedOut, the worker its StopWorker joined has
\* finished.
C23_NoDeadlock ==
    /\ Running =>
          \A x \in Waiters \cup EngineThreads \cup DOMAIN wpc :
             Active(x) => \/ CanStep(x)
                          \/ CanStep(WaitsFor(x))
                          \/ CanStep(WaitsFor(WaitsFor(x)))
    /\ \A t \in EngineThreads :
         /\ pc[t] \in {"st_join", "st_joining"} => mutex # t
         /\ (pc[t] \in {"lo_lock", "lo_set", "lo_unlock"} /\ joinTarget[t] # "none")
              => wpc[joinTarget[t]] = "exited"

\* the logout callback is inside join() for a worker that waits for the
\* mutex, which the thread in AwaitLogOut holds
C23_Witness ==
    /\ Running
    /\ pc["e1"] = "st_joining" /\ joinTarget["e1"] = "w1"
    /\ wpc["w1"] = "w_waiting" /\ "w1" \notin workerWakeCondition
    /\ mutex = "main" /\ apc["main"] = "a_pred"

\* C24: under fair scheduling, once StopWorker has set stopWorker and
\* called notify_all, no worker is blocked in its timed wait (a woken
\* worker only has to get the mutex back) and no worker starts another
\* wait; the worker finishes, StopWorker's join() returns and the logout
\* callback returns (unless the process has ended before).
C24_WorkerStops ==
    /\ [](stopWorker => workerWakeCondition = {})
    /\ [][\A w \in DOMAIN wpc :
            (stopWorker /\ wpc[w] # "w_waiting") => wpc'[w] # "w_waiting"]_vars
    /\ [](pc["e1"] = "lo_diag" => Live = {})
    /\ (pc["e1"] = "st_unlock") ~> (pc["e1"] = "idle" \/ ~Running)

\* StopWorker has set the flag and notified a worker that was inside its
\* timed wait, and the program has not ended
C24_Witness ==
    /\ Running /\ pc["e1"] = "st_unlock" /\ stopWorker
    /\ wpc["w1"] = "w_waiting" /\ wake["w1"] = "notify"

\* C25 (as claimed): the worker queries the shared clock only on wakes where
\* the stop flag is not set: no step that queries the clock is taken with
\* stopWorker set.
C25_ClockOnlyWhenNotStopped ==
    [][\A w \in DOMAIN wpc :
         (wpc[w] = "w_clock" /\ wpc'[w] # "w_clock") => ~stopWorker]_vars

\* C25 (amended): whenever the worker's timed wait returns, by timeout, by
\* notification or because its predicate holds, the worker queries the
\* clock next, whatever stopWorker is, and only then tests the flag; it
\* leaves the loop only at that test, with the flag set, and goes back to
\* waiting from it with the flag clear.
C25_ClockThenFlag ==
    [][\A w \in DOMAIN wpc :
         /\ (wpc[w] \in {"w_pred", "w_waiting"}
               /\ wpc'[w] \notin {"w_pred", "w_waiting"}) => wpc'[w] = "w_clock"
         /\ (wpc[w] = "w_clock" /\ wpc'[w] # "w_clock") => wpc'[w] = "w_test"
         /\ (wpc[w] # "exited" /\ wpc'[w] = "exited")
               => (wpc[w] = "w_test" /\ stopWorker)
         /\ (wpc[w] = "w_test" /\ wpc'[w] # "w_test")
               => wpc'[w] = (IF stopWorker THEN "exited" ELSE "w_pred")]_vars

\* a worker woken by StopWorker is about to query the clock with the stop
\* flag set
C25_Witness ==
    /\ Running /\ stopWorker /\ pc["e1"] = "st_joining"
    /\ wpc["w1"] = "w_clock" /\ mutex = "w1" /\ ENABLED Worker_Clock("w1")

\* C26 (as claimed): however the login-succeeded callbacks are delivered,
\* one after the other or at once on different engine threads, at most one
\* worker thread exists at any time, and no engine thread is about to
\* assign a new thread to workerThread while the handle is joinable.
C26_OneWorker ==
    /\ Cardinality(Live) <= 1
    /\ \A t \in EngineThreads : pc[t] = "sw_spawn" => ~Joinable

\* the kinds of the content events
HandlerKinds ==
    {"Join", "Leave", "Message", "Notice", "Host", "RoomModeChange", "Clear",
     "Sub", "Raid", "Ritual"}

\* the session state the lifecycle is made of
LifecycleState == <<loggedOut, stopWorker, workerThread, channelsToJoin>>

\* C27: a content event handled by Join, Leave, Message, Notice, Host,
\* RoomModeChange, Clear, Sub, Raid or Ritual adds exactly one diagnostic,
\* the line rendered for it, and leaves loggedOut, stopWorker, the worker
\* handle and the channel list as they are; and a step that changes any of
\* these four is a step of InitiateLogIn or of a login or logout callback
\* (InitiateLogOut itself only sends the engine the logout request).
C27_HandlersFrame ==
    [][/\ \A e \in NewEvents :
            e.kind \in HandlerKinds
            => /\ diags' = diags (+) SetToBag({e.out})
               /\ BagCardinality(diags') = BagCardinality(diags) + 1
               /\ UNCHANGED LifecycleState
       /\ LifecycleState' # LifecycleState
            => \/ mpc = "login" /\ mpc' = "loop"
               \/ \E t \in EngineThreads :
                     /\ pc[t] \in {"sw_reset", "sw_spawn", "st_set",
                                   "st_joining", "lo_set"}
                     /\ pc'[t] # pc[t]]_vars

\* after InitiateLogIn recorded the channels, a membership event and a raid
\* have been handled: each one's line is among the diagnostics once
C27_Witness ==
    /\ channelsToJoin # <<>> /\ ~loggedOut /\ mpc \in {"loop", "await"}
    /\ \E e \in EventsOf("Join"), f \in EventsOf("Raid") :
         CopiesIn(e.out, diags) = 1 /\ CopiesIn(f.out, diags) = 1

\* C28: the content-event handlers never lock the session mutex and never
\* wait on a condition variable: whoever holds the mutex or waits for it,
\* an engine thread that is in no callback can run each of the ten
\* handlers to its end (as long as the engine is connected and the model's
\* budget of events lasts), and a handler leaves the mutex and both
\* condition variables as they are.
C28_HandlersNeverBlock ==
    /\ [](\A t \in EngineThreads :
            (Running /\ EngineActive /\ pc[t] = "idle"
               /\ BagCardinality(events) < MaxEvents)
            => /\ ENABLED Join(t) /\ ENABLED Leave(t) /\ ENABLED Message(t)
               /\ ENABLED Notice(t) /\ ENABLED Host(t)
               /\ ENABLED RoomModeChange(t) /\ ENABLED Clear(t)
               /\ ENABLED Sub(t) /\ ENABLED Raid(t) /\ ENABLED Ritual(t))
    /\ [][\A e \in NewEvents :
            e.kind \in HandlerKinds
            => UNCHANGED <<mutex, mainThreadEvent, workerWakeCondition, wake>>]_vars

\* an event has been handled, the thread in AwaitLogOut holds the mutex and
\* the engine thread can run a handler again
C28_Witness ==
    /\ mutex = "main" /\ apc["main"] = "a_pred"
    /\ \E e \in BagToSet(events) : e.kind \in HandlerKinds
    /\ BagCardinality(events) < MaxEvents
    /\ ENABLED Message("e1") /\ ENABLED Clear("e1")

\* the worker holds the mutex, the thread in AwaitLogOut waits for it, and
\* the engine thread can run a handler
C28_WitnessWorker ==
    /\ mutex = "w1" /\ apc["main"] = "a_lock"
    /\ pc["e1"] = "idle" /\ ENABLED Message("e1") /\ ENABLED Sub("e1")

\* C29: no operation emits a diagnostic while it holds the session mutex:
\* a step that adds to the diagnostics is a step of the controlling thread
\* or of an engine thread in a callback, never of the worker, and the
\* thread taking it does not own the mutex before or after the step
\* (another thread may own it meanwhile).
C29_NoDiagUnderLock ==
    [][diags' # diags
         => /\ mutex' = mutex
            /\ (mpc' # mpc) \/ (\E t \in EngineThreads : pc'[t] # pc[t])
            /\ (mpc' # mpc) => mutex # "main"
            /\ \A t \in EngineThreads : pc'[t] # pc[t] => mutex # t]_vars

\* the logout callback has reported "Logged out." and now waits for the
\* mutex, which the thread in AwaitLogOut holds
C29_Witness ==
    /\ pc["e1"] = "lo_lock" /\ mutex = "main"
    /\ CopiesIn(LoggedOutDiag, diags) = 1

\* the order of main's statements
MainOrder ==
    {<<"args", "configure">>, <<"args", "exit_failure">>,
     <<"configure", "login">>, <<"login", "loop">>, <<"loop", "await">>,
     <<"await", "loop">>, <<"loop", "restore">>, <<"await", "restore">>,
     <<"restore", "logout">>, <<"logout", "final">>, <<"final", "done">>}

\* the LogInAnonymously commands the engine has received
LogInsIssued == SelectSeq(tmiCommands, LAMBDA c : c[1] = "LogInAnonymously")

\* C30: the controlling thread calls Configure once, then InitiateLogIn
\* once, then AwaitLogOut zero or more times, then InitiateLogOut, then
\* AwaitLogOut once: its position only moves along that order, Configure's
\* diagnostic and the login command exist once from their call on,
\* AwaitLogOut is in progress only in the polling loop and after
\* InitiateLogOut, where it is not called again once it returned; and the
\* loop is left, towards InitiateLogOut, only with the interrupt flag set
\* or on an AwaitLogOut that returned true, so InitiateLogOut is never
\* reached with the flag unset and the session not reported logged out.
C30_MainOrder ==
    /\ [][mpc' # mpc => <<mpc, mpc'>> \in MainOrder]_vars
    /\ [][(mpc # "restore" /\ mpc' = "restore")
            => \/ mpc = "loop" /\ shutDown
               \/ /\ mpc = "await" /\ apc["main"] = "a_ret"
                  /\ awaitResult["main"] /\ loggedOut]_vars
    /\ [][(mpc = "final" /\ apc["main"] = "a_ret")
            => apc'["main"] \in {"a_ret", "none"}]_vars
    /\ [](/\ CopiesIn(Diag(3, "Configured."), diags)
               = (IF mpc \in {"args", "configure", "exit_failure"} THEN 0 ELSE 1)
          /\ Len(LogInsIssued)
               = (IF mpc \in {"args", "configure", "login", "exit_failure"}
                  THEN 0 ELSE 1)
          /\ mpc \in {"restore", "logout", "final", "done"}
               => (shutDown \/ loggedOut)
          /\ apc["main"] \in {"a_lock", "a_pred", "a_waiting", "a_unlock", "a_ret"}
               => mpc \in {"await", "final"})

\* main is about to call InitiateLogOut after a poll that returned true,
\* the interrupt flag never set
C30_Witness ==
    /\ mpc = "logout" /\ ~shutDown /\ loggedOut
    /\ Len(LogInsIssued) = 1 /\ LogOutsIssued = <<>>

\* C31: the worker waits on workerWakeCondition and AwaitLogOut on
\* mainThreadEvent, two condition variables: only workers are blocked on
\* the first and only callers of AwaitLogOut on the second; StopWorker's
\* notify_all wakes every blocked worker and leaves every thread blocked in
\* AwaitLogOut blocked; the logout callback's notify_one leaves every
\* blocked worker blocked; and a thread in AwaitLogOut is never marked as
\* notified by a step other than the logout callback's.
C31_SeparateConditions ==
    /\ [](/\ workerWakeCondition \subseteq DOMAIN wpc
          /\ mainThreadEvent \subseteq Waiters)
    /\ [][\A t \in EngineThreads :
            /\ (pc[t] = "st_set" /\ pc'[t] = "st_unlock")
                 => /\ mainThreadEvent' = mainThreadEvent
                    /\ \A x \in Waiters : wake'[x] = wake[x]
                    /\ workerWakeCondition' = {}
                    /\ \A w \in workerWakeCondition : wake'[w] = "notify"
            /\ (pc[t] = "lo_set" /\ pc'[t] = "lo_unlock")
                 => /\ workerWakeCondition' = workerWakeCondition
                    /\ \A w \in DOMAIN wpc : wake'[w] = wake[w]]_vars
    /\ [][\A x \in Waiters :
            (wake[x] # "notify" /\ wake'[x] = "notify")
            => \E t \in EngineThreads :
                  pc[t] = "lo_set" /\ pc'[t] = "lo_unlock"]_vars

\* the logout callback has notified the thread blocked in AwaitLogOut while
\* a worker is blocked in its timed wait, and the worker is still blocked
C31_Witness ==
    /\ \E t \in EngineThreads : pc[t] = "lo_unlock"
    /\ wake["main"] = "notify" /\ apc["main"] = "a_waiting"
    /\ \E w \in workerWakeCondition : wpc[w] = "w_waiting" /\ wake[w] = "none"

\* StopWorker has notified a blocked worker while the thread in AwaitLogOut
\* is blocked, and that thread is still blocked
C31_WitnessStopWorker ==
    /\ pc["e1"] = "st_unlock" /\ wake["w1"] = "notify"
    /\ "main" \in mainThreadEvent /\ wake["main"] = "none"

\* the pieces of a message line that are not part of its framing
WithoutFraming(text) ==
    SelectSeq(text, LAMBDA piece : piece \notin {"] ** ", " **", "] ", ": "})

\* C32: a message rendered as an action and the same message rendered
\* plainly are emitted at the same level; the two lines differ, the action
\* one framed by "** " and " **" and the plain one not; and with the
\* framing taken away both hold the same pieces in the same order: the
\* timestamp, the channel, the user's name, the bits clause and the body.
C32_ActionFraming ==
    \A e, f \in EventsOf("Message") :
       (/\ e.info.isAction /\ ~f.info.isAction
        /\ e.info = [f.info EXCEPT !.isAction = TRUE])
       => LET m == e.info
              name == IF m.displayName # <<>> THEN m.displayName ELSE m.user
              clause == IF m.bits > 0
                        THEN <<" (", ToString(m.bits), " bits)">> ELSE <<>>
          IN  /\ e.out[1] = f.out[1]
              /\ e.out[2] # f.out[2]
              /\ Occurrences(e.out[2], <<"] ** ">>) = 1
              /\ EndsWith(e.out[2], <<" **">>)
              /\ Occurrences(f.out[2], <<"] ** ">>) = 0
              /\ Occurrences(f.out[2], <<" **">>) = 0
              /\ WithoutFraming(e.out[2]) = WithoutFraming(f.out[2])
              /\ \A text \in {e.out[2], f.out[2]} :
                    /\ Occurrences(text, m.channel) = 1
                    /\ Occurrences(text, name \o clause \o
                                            (IF text = e.out[2] THEN <<>>
                                             ELSE <<": ">>)
                                          \o m.messageContent) = 1

\* the same message, with bits, has been rendered as an action and plainly
C32_Witness ==
    \E e, f \in EventsOf("Message") :
       /\ e.info.isAction /\ ~f.info.isAction
       /\ e.info = [f.info EXCEPT !.isAction = TRUE]
       /\ e.info.bits = 50 /\ e.out[1] = 3 /\ f.out[1] = 3

\* the order of the levels handed to the sink: a diagnostic of a higher
\* level is the more severe one (Levels::ERROR is the highest in use)
MoreSevere(a, b) == a > b

\* C33: among the diagnostics of the content events, those of Join and
\* Leave are the least severe (none is less severe, and those of every
\* other kind are more severe); a chat message without bits is more severe
\* than a membership diagnostic; and every diagnostic of Clear, Sub, Raid,
\* Ritual and Notice, those of unknown subtypes included, is more severe
\* than a chat message without bits.
C33_SeverityPolicy ==
    \A e, f \in {x \in BagToSet(events) : x.kind \in HandlerKinds} :
       /\ e.kind \in {"Join", "Leave"}
            => /\ ~MoreSevere(e.out[1], f.out[1])
               /\ f.kind \notin {"Join", "Leave"}
                    => MoreSevere(f.out[1], e.out[1])
       /\ (e.kind = "Message" /\ e.info.bits = 0)
            => /\ f.kind \in {"Join", "Leave"}
                    => MoreSevere(e.out[1], f.out[1])
               /\ f.kind \in {"Clear", "Sub", "Raid", "Ritual", "Notice"}
                    => MoreSevere(f.out[1], e.out[1])

\* a join and a chat message without bits have been reported
C33_Witness ==
    \E e \in EventsOf("Join"), f \in EventsOf("Message") :
       f.info.bits = 0 /\ e.out[1] = 1 /\ f.out[1] = 2

\* a chat message without bits and a ban have been reported
C33_WitnessModeration ==
    \E e \in EventsOf("Message"), f \in EventsOf("Clear") :
       e.info.bits = 0 /\ f.info.type = "Ban" /\ e.out[1] = 2 /\ f.out[1] = 3

\* C34 (as claimed): for every pair of seconds and milliseconds, the
\* milliseconds of 1000 and more included, FormatTimestamp returns a text
\* of the form HH:MM:SS.mmm, 12 characters of which exactly three are the
\* digits of the milliseconds, and writes no byte past its 13-byte buffer.
C34_TimestampForm ==
    /\ ~terminated
    /\ \A e \in EventsOf("FormatTimestamp") :
         /\ e.out.written <= BufferSize
         /\ ~e.out.aborted
         /\ e.out.chars = 12 /\ e.out.digits = 3

\* for milliseconds below 1000 the claim holds: twelve characters, three
\* digits, thirteen bytes with the NUL
C34_BelowThousand ==
    \A e \in EventsOf("FormatTimestamp") :
       e.info.milliseconds < 1000
       => /\ e.out.written = BufferSize /\ ~e.out.aborted
          /\ e.out.chars = 12 /\ e.out.digits = 3

\* C35 (as claimed): when main's last AwaitLogOut has returned, so that
\* main returns and the Lurker is destroyed, workerThread is not joinable,
\* and the destruction never ends the process by std::terminate.
C35_DestroyedWithoutWorker ==
    /\ (mpc = "final" /\ apc["main"] = "a_ret") => ~Joinable
    /\ ~terminated

\* the path the claim names: a login succeeded, the interrupt ended the
\* loop, no logout callback was delivered, the last wait timed out, and
\* the destruction met a joinable worker thread
C35_TerminatedAfterTimeout ==
    /\ terminated /\ mpc = "final" /\ Joinable
    /\ done["LogIn"] >= 1 /\ done["LogOut"] = 0 /\ ~loggedOut /\ shutDown
    /\ \A t \in EngineThreads : pc[t] \in {"off", "idle"}

\* C36 (as claimed): with logout callbacks running on two engine threads
\* at once, "Logged out." is emitted once, mainThreadEvent is notified
\* once, and the worker thread is joined once: no two threads are inside
\* join() for the same thread and no join() is made on a handle that is
\* not joinable.
C36_ConcurrentLogOutOnce ==
    /\ CopiesIn(LoggedOutDiag, diags) <= 1
    /\ Len(notified) <= 1
    /\ \A t \in EngineThreads : pc[t] # "threw"
    /\ \A t, u \in EngineThreads :
         (t # u /\ pc[t] = "st_joining" /\ pc[u] = "st_joining")
         => joinTarget[t] # joinTarget[u]

\* both callbacks have run to their end: two diagnostics, two notifications
C36_BothLoggedOut ==
    /\ done["LogOut"] = 2 /\ done["LogIn"] = 0
    /\ CopiesIn(LoggedOutDiag, diags) = 2 /\ Len(notified) = 2

\* both callbacks are inside join() for the one worker thread
C36_DoubleJoin ==
    /\ pc["e1"] = "st_joining" /\ pc["e2"] = "st_joining"
    /\ joinTarget["e1"] = joinTarget["e2"]

\* C37: a logout callback delivered when no login-succeeded callback was
\* ever invoked finds no worker: its StopWorker returns at the joinable
\* test without locking the mutex, without touching stopWorker and without
\* waking anybody; once the callback has returned, "Logged out." has been
\* emitted once, loggedOut is set, mainThreadEvent has been notified once
\* (waking the controlling thread if it was blocked), stopWorker still has
\* its initial value and no worker exists; and under fair scheduling such a
\* callback makes the controlling thread leave its wait loop.
C37_LogOutWithoutLogIn ==
    /\ [][\A t \in EngineThreads :
            (pc[t] = "st_check" /\ ~LogInInvoked /\ pc'[t] # pc[t])
            => /\ pc'[t] = "lo_diag"
               /\ UNCHANGED <<stopWorker, mutex, workerWakeCondition,
                              workerThread, wake>>]_vars
    /\ []((~LogInInvoked /\ done["LogOut"] >= 1)
            => /\ CopiesIn(LoggedOutDiag, diags) = 1
               /\ loggedOut /\ ~stopWorker /\ DOMAIN wpc = {}
               /\ Len(notified) = 1
               /\ notified[1].blocked # {} => notified[1].woken = {"main"})
    /\ (~LogInInvoked /\ pc["e1"] = "lo_check" /\ mpc \in {"loop", "await"})
         ~> (mpc \notin {"loop", "await"} \/ ~Running)

\* no login ever succeeded, the logout callback has returned after waking
\* the controlling thread, which has left its loop without an interrupt
C37_Witness ==
    /\ ~LogInInvoked /\ done["LogOut"] = 1 /\ done["LogIn"] = 0
    /\ loggedOut /\ ~stopWorker /\ ~shutDown
    /\ Len(notified) = 1 /\ notified[1].woken = {"main"}
    /\ mpc = "logout"

====
